---------------------------- MODULE Spec2Model ----------------------------
(***************************************************************************)
(* A model of the AST interpolation pipeline                               *)
(* (src/processing/interpolate_scaled_offset_field.py): the two CSV        *)
(* loaders, the KNN fit of the land-control points, the scattered-data     *)
(* interpolant (fit and transform) and the k-fold cross-validation         *)
(* harness; and of the harvester's URL probe and station class             *)
(* (src/harvester/get_adicrc_stations.py).                                 *)
(*                                                                         *)
(* Numbers.  Coordinates are integers.  A VAL is an exact rational <<n,d>> *)
(* in lowest terms with d >= 1, or NaN (a missing value).  Coordinates are *)
(* never missing in the model.                                             *)
(* Strings that the code normalises are sequences of one-character         *)
(* strings, so that space removal and upper-casing are computed.           *)
(***************************************************************************)
EXTENDS Integers, Sequences, FiniteSets, TLC

VARIABLES
    \* ---- the loaders (get_lon_lat_control_values, get_station_values)
    fname,            \* the file argument: None or "file"
    csv_header,       \* the header row of the file: a sequence of raw names
    loaded,           \* the outcome of the loader call
    \* ---- interpolation_model_fit and interpolation_model_transform
    df_combined,      \* the training set handed to the fit: a sequence of rows
    fill_value,       \* the out-of-hull value
    interpolation_type, \* the interpolant's name, a string
    model,            \* NoModel or the fitted model
    model_refit,      \* NoModel or the model of a second fit with the same arguments
    adc_combined,     \* the query: [LON |-> list, LAT |-> list]
    input_grid_type,  \* the query mode, a string
    df_out,           \* the rows returned by the transform
    \* ---- combine_datasets_for_interpolation
    list_dfs,         \* the list of frames handed to the combine
    \* ---- knn_fit_control_points and test_interpolation_fit
    df_source,        \* the station frame
    df_land_controls, \* the caller's land-control frame object: [given, rows]
    df_water_controls, \* the caller's water-control frame object: [given, rows]
    cv_splits,        \* the fold count
    nearest_neighbors, \* the neighbor count
    fold,             \* the loop counter of test_interpolation_fit
    cv_folds,         \* what each finished loop iteration computed
    kf_dict,          \* the station score report
    kfcntl_dict,      \* the control score report
    \* ---- the harvester: first_available_netCDF4 and class get_adcirc_stations
    urls,             \* the list handed to first_available_netCDF4
    url,              \* the position in urls of what it returned (0: nothing)
    knockout_file,    \* the constructor's knockout_file argument
    self_knockout,    \* the object's knockout attribute: [set, dict]
    df_station,       \* the caller's time x station frame object
    station_list,     \* the argument of override_station_IDs: [type, items]
    self_station_list, \* the object's station_list attribute
    called,           \* the harvester operation that ran last
    fitted,           \* the rows handed to each fitting step so far, in call order
    pc                \* how far the call in progress is / how it ended

loaderVars == <<fname, csv_header, loaded>>
interpVars == <<df_combined, fill_value, interpolation_type, model, model_refit,
                adc_combined, input_grid_type, df_out, list_dfs>>
cvInputs == <<df_source, df_water_controls, cv_splits, nearest_neighbors>>
cvVars == <<cvInputs, df_land_controls, fold, cv_folds, kf_dict, kfcntl_dict>>
harvesterVars == <<urls, url, knockout_file, self_knockout, df_station,
                   station_list, self_station_list, called>>
vars == <<loaderVars, interpVars, cvVars, harvesterVars, fitted, pc>>

None == "None"

\* an attribute that was never assigned
Unset == [set |-> FALSE, dict |-> <<>>]

\* the list the constructor reads from its station file
FileStations == [type |-> "list", items |-> <<"s1", "s2">>]

\* the harvester variables while no harvester operation is modelled
HarvesterIdle ==
    /\ urls = <<>>
    /\ url = 0
    /\ knockout_file = Unset
    /\ self_knockout = Unset
    /\ df_station = <<>>
    /\ station_list = FileStations
    /\ self_station_list = FileStations
    /\ called = None

(***************************************************************************)
(* Exact rationals                                                         *)
(***************************************************************************)
NaN == <<0, 0>>

Abs(i) == IF i < 0 THEN -i ELSE i

RECURSIVE GCD(_, _)
GCD(a, b) == IF b = 0 THEN a ELSE GCD(b, a % b)

Rat(n, d) ==
    LET g == GCD(Abs(n), Abs(d))
        s == IF d < 0 THEN -1 ELSE 1
    IN  <<(s * n) \div g, (s * d) \div g>>

RInt(i) == <<i, 1>>
\* sums and differences over the least common denominator
RAdd(a, b) ==
    LET l == (a[2] \div GCD(a[2], b[2])) * b[2]
    IN  Rat(a[1] * (l \div a[2]) + b[1] * (l \div b[2]), l)
RSub(a, b) == RAdd(a, <<-b[1], b[2]>>)
RMul(a, b) == Rat(a[1] * b[1], a[2] * b[2])
RDivInt(a, k) == Rat(a[1], a[2] * k)
RLess(a, b) == a[1] * b[2] < b[1] * a[2]

(***************************************************************************)
(* Strings as character sequences                                          *)
(***************************************************************************)
LowerChars ==
    <<"a", "b", "c", "d", "e", "f", "g", "h", "i", "j", "k", "l", "m">> \o
    <<"n", "o", "p", "q", "r", "s", "t", "u", "v", "w", "x", "y", "z">>
UpperChars ==
    <<"A", "B", "C", "D", "E", "F", "G", "H", "I", "J", "K", "L", "M">> \o
    <<"N", "O", "P", "Q", "R", "S", "T", "U", "V", "W", "X", "Y", "Z">>

\* str.upper() on one character
UpperChar(c) ==
    IF \E i \in DOMAIN LowerChars : LowerChars[i] = c
    THEN UpperChars[CHOOSE i \in DOMAIN LowerChars : LowerChars[i] = c]
    ELSE c

\* x.upper()
StrUpper(s) == [i \in DOMAIN s |-> UpperChar(s[i])]

IsNotSpace(c) == c # " "

\* s.replace(' ', '')
StrRemoveSpaces(s) == SelectSeq(s, IsNotSpace)

s_val == <<"v", "a", "l">>
s_mean == <<"m", "e", "a", "n">>
s_LON == <<"L", "O", "N">>
s_LAT == <<"L", "A", "T">>
s_VAL == <<"V", "A", "L">>
s_STATION == <<"S", "T", "A", "T", "I", "O", "N">>
s_STATIONID == <<"S", "T", "A", "T", "I", "O", "N", "I", "D">>

(***************************************************************************)
(* Rows and frames.  A row is [LON, LAT, VAL], with one more entry per     *)
(* further column of its frame; a frame is a sequence of rows.             *)
(***************************************************************************)
Row(x, y, v) == [LON |-> x, LAT |-> y, VAL |-> v]

\* the row has a missing entry in one of its columns (coordinates are never
\* missing)
HasMissing(row) == \E c \in DOMAIN row \ {"LON", "LAT"} : row[c] = NaN

\* df.dropna(): the rows without a missing entry, in their order
RECURSIVE dropna(_)
dropna(df) ==
    IF df = <<>> THEN <<>>
    ELSE IF HasMissing(Head(df)) THEN dropna(Tail(df))
    ELSE <<Head(df)>> \o dropna(Tail(df))

Coords(df) == { <<df[i].LON, df[i].LAT>> : i \in DOMAIN df }

\* an entry of fitted: the rows a fitting step of a library was handed
Handed(step, rows) == [step |-> step, rows |-> rows]

(***************************************************************************)
(* The scattered-data interpolant (scipy.interpolate.LinearNDInterpolator  *)
(* and CloughTocher2DInterpolator): a Delaunay triangulation of the        *)
(* distinct (LON, LAT) points, computed with exact integer predicates.     *)
(***************************************************************************)
Orient(a, b, c) == (b[1] - a[1]) * (c[2] - a[2]) - (b[2] - a[2]) * (c[1] - a[1])

InCircleDet(a, b, c, d) ==
    LET ax == a[1] - d[1]
        ay == a[2] - d[2]
        bx == b[1] - d[1]
        by == b[2] - d[2]
        cx == c[1] - d[1]
        cy == c[2] - d[2]
        az == ax * ax + ay * ay
        bz == bx * bx + by * by
        cz == cx * cx + cy * cy
    IN  ax * (by * cz - bz * cy) - ay * (bx * cz - bz * cx) + az * (bx * cy - by * cx)

\* d lies strictly inside the circle through the corners of t
StrictlyInCircle(t, d) ==
    InCircleDet(t[1], t[2], t[3], d) * Orient(t[1], t[2], t[3]) > 0

PtLess(a, b) == a[1] < b[1] \/ (a[1] = b[1] /\ a[2] < b[2])

\* the non-degenerate triangles on P, corners in lexicographic order
Triples(P) ==
    { t \in P \X P \X P :
        PtLess(t[1], t[2]) /\ PtLess(t[2], t[3]) /\ Orient(t[1], t[2], t[3]) # 0 }

\* the triangles whose circumcircle holds no point of P strictly inside
EmptyCircleTriangles(P) ==
    { t \in Triples(P) : \A d \in P : ~StrictlyInCircle(t, d) }

TriVerts(t) == {t[1], t[2], t[3]}

TriEdges(t) == { <<t[1], t[2]>>, <<t[2], t[3]>>, <<t[1], t[3]>> }

Apex(t, e) == CHOOSE w \in TriVerts(t) : w # e[1] /\ w # e[2]

\* T tiles the convex hull of P: every edge of every triangle of T is either
\* on the hull boundary and in no other triangle, or shared with exactly one
\* other triangle of T that lies across it.
IsTriangulation(T, P) ==
    /\ T # {}
    /\ \A t \in T : \A e \in TriEdges(t) :
          LET w == Apex(t, e)
              mates == { u \in T : u # t /\ e \in TriEdges(u) }
          IN  IF \A q \in P : Orient(e[1], e[2], q) * Orient(e[1], e[2], w) >= 0
              THEN mates = {}
              ELSE /\ Cardinality(mates) = 1
                   /\ \A u \in mates :
                         Orient(e[1], e[2], Apex(u, e)) * Orient(e[1], e[2], w) < 0

\* The Delaunay triangulations of P.  It is unique unless four or more
\* points lie on one empty circle; then the library settles on one of them.
Triangulations(P) ==
    LET tris == EmptyCircleTriangles(P)
    IN  IF IsTriangulation(tris, P) THEN {tris}
        ELSE { T \in SUBSET tris : IsTriangulation(T, P) }

ValsAt(rows, p) ==
    { rows[i].VAL : i \in { j \in DOMAIN rows : <<rows[j].LON, rows[j].LAT>> = p } }

\* The value the interpolant holds at each distinct point.  Rows with the
\* same coordinates are one vertex; which row's value the vertex keeps is
\* the library's choice.
VertexValueChoices(rows) ==
    LET P == Coords(rows)
        dup == { p \in P : Cardinality(ValsAt(rows, p)) > 1 }
        all == { rows[i].VAL : i \in DOMAIN rows }
    IN  { [p \in P |-> IF p \in dup THEN c[p] ELSE CHOOSE v \in ValsAt(rows, p) : TRUE] :
            c \in { f \in [dup -> all] : \A p \in dup : f[p] \in ValsAt(rows, p) } }

NoModel == [kind |-> <<"N", "o", "n", "e">>]

s_LinearNDInterpolator ==
    <<"L", "i", "n", "e", "a", "r", "N", "D", "I", "n", "t", "e", "r", "p", "o", "l", "a", "t", "o", "r">>
s_CloughTocher2DInterpolator ==
    <<"C", "l", "o", "u", "g", "h", "T", "o", "c", "h", "e", "r", "2", "D">> \o
    <<"I", "n", "t", "e", "r", "p", "o", "l", "a", "t", "o", "r">>
s_nearest == <<"n", "e", "a", "r", "e", "s", "t">>

s_LINEARNDINTERPOLATOR == StrUpper(s_LinearNDInterpolator)
s_CLOUGHTOCHER2DINTERPOLATOR == StrUpper(s_CloughTocher2DInterpolator)

\* the choices without the Clough-Tocher interpolant
model_choices_linearonly == {s_LINEARNDINTERPOLATOR}

model_choices == {s_LINEARNDINTERPOLATOR, s_CLOUGHTOCHER2DINTERPOLATOR}

\* sci.LinearNDInterpolator((X,Y), V, fill_value) and its Clough-Tocher
\* sibling: the models the constructor can return; none when it raises
\* (fewer than three points that are not on one line).
Interpolators(kind, rows, fill) ==
    LET P == Coords(rows)
    IN  { [kind |-> kind, points |-> P, values |-> vv, simplices |-> T,
           fill_value |-> fill] :
            vv \in VertexValueChoices(rows), T \in Triangulations(P) }

\* the interpolant constructor given every row, valued or not
InterpolantRows_all(df) == df

\* df_drop: the rows whose LON, LAT and VAL go to the interpolant constructor
InterpolantRows(df) == dropna(df)

\* the outcomes of interpolation_model_fit: <<status, model>>
FitOutcomes(df, fill, itype) ==
    IF StrUpper(itype) \notin model_choices THEN { <<"exit1", NoModel>> }
    ELSE
    LET df_drop == InterpolantRows(df)
        ms == Interpolators(StrUpper(itype), df_drop, fill)
    IN  IF ms = {} THEN { <<"NameError", NoModel>> }   \* 'template' is not defined
        ELSE { <<"returned", m>> : m \in ms }

\* q lies in the closed triangle t
InTriangle(q, t) ==
    LET W == Orient(t[1], t[2], t[3])
    IN  /\ Orient(q, t[2], t[3]) * W >= 0
        /\ Orient(t[1], q, t[3]) * W >= 0
        /\ Orient(t[1], t[2], q) * W >= 0

\* LinearInTriangle with the weights of the first two corners exchanged
LinearInTriangle_swapped(m, t, q) ==
    LET W == Orient(t[1], t[2], t[3])
        w1 == Orient(q, t[2], t[3])
        w2 == Orient(t[1], q, t[3])
        w3 == Orient(t[1], t[2], q)
        sum == RAdd(RMul(RInt(w2), m.values[t[1]]),
                    RAdd(RMul(RInt(w1), m.values[t[2]]),
                         RMul(RInt(w3), m.values[t[3]])))
    IN  Rat(sum[1], sum[2] * W)

\* linear interpolation of the corner values of t at q (barycentric)
LinearInTriangle(m, t, q) ==
    LET W == Orient(t[1], t[2], t[3])
        w1 == Orient(q, t[2], t[3])
        w2 == Orient(t[1], q, t[3])
        w3 == Orient(t[1], t[2], q)
        sum == RAdd(RMul(RInt(w1), m.values[t[1]]),
                    RAdd(RMul(RInt(w2), m.values[t[2]]),
                         RMul(RInt(w3), m.values[t[3]])))
    IN  Rat(sum[1], sum[2] * W)

\* the value of the piecewise-cubic interpolant inside the hull away from
\* the data points: not computed by this model
NotModelled == <<1, 0>>

\* the model call of an interpolant built without the fill_value argument:
\* outside the hull it returns nan
ModelCall_nofill(m, gx, gy) ==
    LET q == <<gx, gy>>
        hit == { t \in m.simplices : InTriangle(q, t) }
    IN  IF hit = {} THEN NaN
        ELSE IF m.kind = s_CLOUGHTOCHER2DINTERPOLATOR /\ q \notin m.points
        THEN NotModelled
        ELSE LinearInTriangle(m, CHOOSE t \in hit : TRUE, q)

\* model(gx, gy).item(0).  Both interpolants return the fill value outside
\* the hull and the vertex value at a data point; between data points the
\* linear one interpolates in the triangle that holds the point.
ModelCall(m, gx, gy) ==
    LET q == <<gx, gy>>
        hit == { t \in m.simplices : InTriangle(q, t) }
    IN  IF hit = {} THEN m.fill_value
        ELSE IF m.kind = s_CLOUGHTOCHER2DINTERPOLATOR /\ q \notin m.points
        THEN NotModelled
        ELSE LinearInTriangle(m, CHOOSE t \in hit : TRUE, q)

(***************************************************************************)
(* knn_fit_control_points: KNeighborsRegressor(n_neighbors, kd_tree,       *)
(* uniform weights, Euclidean metric) fitted on the valued source rows and *)
(* applied to the control coordinates.                                     *)
(***************************************************************************)
\* the distance with the Manhattan (l1) metric
SqDist_manhattan(r, c) == Abs(r.LON - c.LON) + Abs(r.LAT - c.LAT)

\* the squared Euclidean distance (minkowski, p = 2): it orders the source
\* rows as the distance does
SqDist(r, c) ==
    (r.LON - c.LON) * (r.LON - c.LON) + (r.LAT - c.LAT) * (r.LAT - c.LAT)

\* the sum of VAL over the rows of df at the positions in S
RECURSIVE SumVals(_, _)
SumVals(df, S) ==
    IF S = {} THEN RInt(0)
    ELSE LET i == CHOOSE j \in S : TRUE
         IN  RAdd(df[i].VAL, SumVals(df, S \ {i}))

\* the sets of k rows of src nearest to c; more than one when distances tie
NearestSets(src, c, k) ==
    { S \in SUBSET DOMAIN src :
        /\ Cardinality(S) = k
        /\ \A i \in S : \A j \in DOMAIN src \ S : SqDist(src[i], c) <= SqDist(src[j], c) }

\* neigh.predict for one control point: the uniform mean over its neighbors
KnnPredictions(src, c, k) ==
    { RDivInt(SumVals(src, S), k) : S \in NearestSets(src, c, k) }

\* df_drop: the source rows whose coordinates and values go to neigh.fit
KnnFitRows(source) == dropna(source)

\* The outcomes of knn_fit_control_points(df_source, df_controls, k):
\* <<status, rows of the df_controls object afterwards>>.  The fitted values
\* are written into the caller's df_controls, which is also what is returned.
KnnOutcomes(source, controls, k) ==
    LET df_drop == KnnFitRows(source)
    IN  IF Len(df_drop) = 0 \/ k < 1 \/ k > Len(df_drop)
        THEN { <<"ValueError", controls>> }     \* raised by fit or by predict
        ELSE LET pred(i) == KnnPredictions(df_drop, controls[i], k)
                 all == UNION { pred(i) : i \in DOMAIN controls }
             IN  { <<"returned", [i \in DOMAIN controls |-> [controls[i] EXCEPT !.VAL = f[i]]]>> :
                     f \in { g \in [DOMAIN controls -> all] :
                               \A i \in DOMAIN controls : g[i] \in pred(i) } }

(***************************************************************************)
(* The loaders.  A data frame's columns are a sequence of records          *)
(* [name, src]: the column's current name and the position in the file's   *)
(* header row it was read from.                                            *)
(***************************************************************************)
MaxCols == 4

\* Raw header names as they are found in files: leading spaces and mixed
\* case occur.  A header row holds no raw name twice.
RawNames ==
    { <<"L", "o", "n">>, <<" ", "L", "O", "N">>, <<"L", "a", "t">>,
      s_val, <<" ", "V", "A", "L">>, s_mean, <<" ", "M", "e", "a", "n">>,
      s_STATION, s_STATIONID }

Headers ==
    { h \in UNION { [1..n -> RawNames] : n \in 2..MaxCols } :
        \A i, j \in DOMAIN h : i # j => h[i] # h[j] }

HeaderDataChoices == {s_val, s_mean}

\* pd.read_csv(fname, header=0): the columns of the frame
ReadCsvColumns(header) == [i \in DOMAIN header |-> [name |-> header[i], src |-> i]]

\* df.rename(columns = {from: to})
RenameColumns(cols, from, to) ==
    [i \in DOMAIN cols |->
        IF cols[i].name = from THEN [cols[i] EXCEPT !.name = to] ELSE cols[i]]

\* df.columns = df.columns.str.replace(' ', ''); df.columns = [x.upper() ...]
NormalizeColumns(cols) ==
    [i \in DOMAIN cols |-> [cols[i] EXCEPT !.name = StrUpper(StrRemoveSpaces(@))]]

HasColumn(cols, name) == \E i \in DOMAIN cols : cols[i].name = name

\* the loop that fills col_headers, and its length
CountColHeaders(cols, wanted) ==
    Cardinality({ i \in DOMAIN cols : cols[i].name \in wanted })

\* df[[n1, n2, ...]] on a frame in which every wanted name occurs once
SelectColumns(cols, names) ==
    [k \in DOMAIN names |-> CHOOSE i \in DOMAIN cols : cols[i].name = names[k]]

ControlNames == <<s_LON, s_LAT, s_VAL>>
StationNames == <<s_STATIONID, s_LON, s_LAT, s_VAL>>

Range(f) == { f[i] : i \in DOMAIN f }

NotLoaded == [call |-> None, status |-> "pending", header_data |-> <<>>,
              columns |-> <<>>, src |-> <<>>, index |-> <<>>, str_src |-> {}]

Exit1(call, hd) == [NotLoaded EXCEPT !.call = call, !.status = "exit1", !.header_data = hd]
KeyError(call, hd) == [NotLoaded EXCEPT !.call = call, !.status = "KeyError", !.header_data = hd]

\* get_lon_lat_control_values(fname, header_data): the outcome
ControlValuesOutcome(fn, header, header_data) ==
    IF fn = None THEN Exit1("control", header_data)
    ELSE
    LET df1 == RenameColumns(ReadCsvColumns(header), header_data, s_val)
        df2 == NormalizeColumns(df1)
    IN  IF CountColHeaders(df2, Range(ControlNames)) # 3
        THEN Exit1("control", header_data)
        ELSE IF \E k \in DOMAIN ControlNames : ~HasColumn(df2, ControlNames[k])
        THEN KeyError("control", header_data)
        ELSE LET sel == SelectColumns(df2, ControlNames)
             IN  [call |-> "control", status |-> "returned",
                  header_data |-> header_data,
                  columns |-> ControlNames,
                  src |-> [k \in DOMAIN sel |-> df2[sel[k]].src],
                  index |-> <<>>, str_src |-> {}]

\* get_station_values(fname, header_data): the outcome
StationValuesOutcome(fn, header, header_data) ==
    IF fn = None THEN Exit1("station", header_data)
    ELSE
    LET df1 == RenameColumns(ReadCsvColumns(header), header_data, s_val)
    IN  IF ~HasColumn(df1, s_STATION)     \* df['STATION'] on line 72
        THEN KeyError("station", header_data)
        ELSE
        LET coerced == { df1[i].src : i \in { j \in DOMAIN df1 : df1[j].name = s_STATION } }
            df2 == NormalizeColumns(df1)
            df3 == RenameColumns(df2, s_STATION, s_STATIONID)
        IN  IF CountColHeaders(df3, Range(StationNames)) # 4
            THEN Exit1("station", header_data)
            ELSE IF \E k \in DOMAIN StationNames : ~HasColumn(df3, StationNames[k])
            THEN KeyError("station", header_data)
            ELSE LET sel == SelectColumns(df3, StationNames)
                 IN  [call |-> "station", status |-> "returned",
                      header_data |-> header_data,
                      columns |-> ControlNames,
                      src |-> [k \in 1..3 |-> df3[sel[k + 1]].src],
                      index |-> <<s_STATIONID, df3[sel[1]].src>>,
                      str_src |-> coerced]

get_lon_lat_control_values ==
    /\ loaded.status = "pending"
    /\ \E hd \in HeaderDataChoices :
          loaded' = ControlValuesOutcome(fname, csv_header, hd)
    /\ pc' = loaded'.status
    /\ UNCHANGED <<harvesterVars, fname, csv_header, interpVars, cvVars, fitted>>

get_station_values ==
    /\ loaded.status = "pending"
    /\ \E hd \in HeaderDataChoices :
          loaded' = StationValuesOutcome(fname, csv_header, hd)
    /\ pc' = loaded'.status
    /\ UNCHANGED <<harvesterVars, fname, csv_header, interpVars, cvVars, fitted>>

\* the interpolation variables while no interpolation call is modelled
InterpIdle ==
    /\ df_combined = <<>>
    /\ fill_value = RInt(0)
    /\ interpolation_type = <<>>
    /\ model = NoModel
    /\ model_refit = NoModel
    /\ adc_combined = [LON |-> <<>>, LAT |-> <<>>]
    /\ input_grid_type = <<>>
    /\ df_out = <<>>
    /\ list_dfs = <<>>

\* the cross-validation variables while no such call is modelled
NoFrame == [given |-> FALSE, rows |-> <<>>]

CvIdle ==
    /\ df_source = <<>>
    /\ df_land_controls = NoFrame
    /\ df_water_controls = NoFrame
    /\ cv_splits = 0
    /\ nearest_neighbors = 0
    /\ fold = 0
    /\ cv_folds = <<>>
    /\ kf_dict = <<>>
    /\ kfcntl_dict = <<>>

InitLoader ==
    /\ fname \in {None, "file"}
    /\ csv_header \in Headers
    /\ loaded = NotLoaded
    /\ HarvesterIdle
    /\ InterpIdle
    /\ CvIdle
    /\ fitted = <<>>
    /\ pc = "init"

NextLoader == get_lon_lat_control_values \/ get_station_values

SpecLoader == InitLoader /\ [][NextLoader]_vars

(***************************************************************************)
(* Claims about the loaders                                                *)
(***************************************************************************)
\* the header as the loader sees it once the caller's value column is
\* renamed and the names are normalised
SeenNames(header, hd) ==
    LET df == NormalizeColumns(RenameColumns(ReadCsvColumns(header), hd, s_val))
    IN  [i \in DOMAIN df |-> df[i].name]

\* the header with space removal and upper-casing only
NormalNames(header) == [i \in DOMAIN header |-> StrUpper(StrRemoveSpaces(header[i]))]

CountOf(names, wanted) == Cardinality({ i \in DOMAIN names : names[i] \in wanted })

ControlCallDone == loaded.call = "control" /\ fname # None

StationCallDone == loaded.call = "station" /\ fname # None

\* C8: get_lon_lat_control_values ends with exit status 1 on every file
\* whose normalised header does not hold exactly one LON, one LAT and one VAL
\* column; no such file is accepted or fails in another way.
C8_ControlHeaderRejected ==
    ControlCallDone =>
        LET names == SeenNames(csv_header, loaded.header_data)
        IN  (\E n \in Range(ControlNames) : CountOf(names, {n}) # 1)
                => loaded.status = "exit1"

\* A header is well formed for a call when, after space removal and
\* upper-casing, it holds one LON, one LAT, one column named like
\* header_data, no other value column and, for a station file, the raw
\* STATION column as its only station-id column.
ValueColumns(header, hd) ==
    { i \in DOMAIN header : NormalNames(header)[i] \in {StrUpper(StrRemoveSpaces(hd)), s_VAL} }

WellFormedFor(call, header, hd) ==
    LET names == NormalNames(header)
    IN  /\ CountOf(names, {s_LON}) = 1
        /\ CountOf(names, {s_LAT}) = 1
        /\ Cardinality(ValueColumns(header, hd)) = 1
        /\ \A i \in ValueColumns(header, hd) : names[i] = StrUpper(StrRemoveSpaces(hd))
        /\ IF call = "station"
           THEN /\ CountOf(names, {s_STATION, s_STATIONID}) = 1
                /\ \E i \in DOMAIN header : header[i] = s_STATION
           ELSE TRUE

\* C9: in both loaders a value header that differs from header_data only by
\* spaces or letter case is accepted, and that column is returned as VAL.
C9_ValueColumnNormalized ==
    (loaded.status # "pending" /\ fname # None
        /\ WellFormedFor(loaded.call, csv_header, loaded.header_data))
    => /\ loaded.status = "returned"
       /\ loaded.src[3] \in ValueColumns(csv_header, loaded.header_data)

\* C10: get_station_values accepts every file whose normalised header
\* consists of a station-id column, LON, LAT and the value column, returning
\* a table indexed by string-valued STATIONID with columns LON, LAT, VAL, and
\* ends with exit status 1 on every file that lacks one of the four.
C10_StationLoaderContract ==
    StationCallDone =>
        LET names == SeenNames(csv_header, loaded.header_data)
            ids == CountOf(names, {s_STATION, s_STATIONID})
            lacks == \/ ids = 0
                     \/ \E n \in Range(ControlNames) : CountOf(names, {n}) = 0
            exact == /\ ids = 1
                     /\ \A n \in Range(ControlNames) : CountOf(names, {n}) = 1
                     /\ Len(names) = 4
        IN  /\ lacks => loaded.status = "exit1"
            /\ exact => /\ loaded.status = "returned"
                        /\ loaded.columns = ControlNames
                        /\ loaded.index[1] = s_STATIONID
                        /\ loaded.index[2] \in loaded.str_src

(***************************************************************************)
(* interpolation_model_fit                                                 *)
(***************************************************************************)
MaxRows == 5

\* Candidate training rows: a square, a point inside it, a second row on a
\* corner of the square with another value, and a row without a value.
FitPool ==
    << Row(0, 0, RInt(1)), Row(4, 0, RInt(2)), Row(0, 4, RInt(3)), Row(4, 4, RInt(5)),
       Row(2, 1, RInt(4)), Row(0, 0, RInt(7)), Row(2, 0, NaN) >>

\* the rows of pool at the positions in S, in pool order
RECURSIVE SelectRows(_, _, _)
SelectRows(pool, S, i) ==
    IF i > Len(pool) THEN <<>>
    ELSE (IF i \in S THEN <<pool[i]>> ELSE <<>>) \o SelectRows(pool, S, i + 1)

FitFrames ==
    { SelectRows(FitPool, S, 1) :
        S \in { T \in SUBSET DOMAIN FitPool : Cardinality(T) <= MaxRows } }

s_linearndinterpolator == <<"l", "i", "n", "e", "a", "r", "n", "d", "i", "n", "t", "e", "r", "p", "o", "l", "a", "t", "o", "r">>

InterpolationTypes ==
    { s_LinearNDInterpolator, s_linearndinterpolator, s_CloughTocher2DInterpolator,
      s_nearest }

FillValues == { RInt(0), RInt(-1) }

interpolation_model_fit ==
    /\ pc = "init"
    /\ \E o \in FitOutcomes(df_combined, fill_value, interpolation_type) :
          /\ pc' = o[1]
          /\ model' = o[2]
    /\ fitted' = IF StrUpper(interpolation_type) \in model_choices
                  THEN Append(fitted, Handed("interpolant", InterpolantRows(df_combined)))
                  ELSE fitted
    /\ UNCHANGED <<harvesterVars, loaderVars, cvVars, df_combined, fill_value, interpolation_type,
                   model_refit, adc_combined, input_grid_type, df_out, list_dfs>>

LoaderIdle ==
    /\ fname = None
    /\ csv_header = <<>>
    /\ loaded = NotLoaded

InitFit ==
    /\ LoaderIdle
    /\ HarvesterIdle
    /\ CvIdle
    /\ df_combined \in FitFrames
    /\ fill_value \in FillValues
    /\ interpolation_type \in InterpolationTypes
    /\ model = NoModel
    /\ model_refit = NoModel
    /\ adc_combined = [LON |-> <<>>, LAT |-> <<>>]
    /\ input_grid_type = <<>>
    /\ df_out = <<>>
    /\ list_dfs = <<>>
    /\ fitted = <<>>
    /\ pc = "init"

NextFit == interpolation_model_fit

SpecFit == InitFit /\ [][NextFit]_vars

(***************************************************************************)
(* interpolation_model_transform                                           *)
(***************************************************************************)
MaxAxis == 3

LonVals == {0, 3, 6}
LatVals == {1, 4}

Lists(vals) == UNION { [1..n -> vals] : n \in 0..MaxAxis }

s_points == <<"p", "o", "i", "n", "t", "s">>
s_grid == <<"g", "r", "i", "d">>
s_GRID == <<"G", "R", "I", "D">>

GridTypes == { s_points, s_grid, s_GRID }

\* for x in range(0, xl): ... d.append((gx, gy, zval)), from position x on
RECURSIVE GridInnerLoop(_, _, _, _)
GridInnerLoop(m, gridx, gy, x) ==
    IF x > Len(gridx) THEN <<>>
    ELSE <<Row(gridx[x], gy, ModelCall(m, gridx[x], gy))>>
            \o GridInnerLoop(m, gridx, gy, x + 1)

\* the grid loops with longitude outer and latitude inner
RECURSIVE GridOuterLoop_lonmajor(_, _, _, _)
GridOuterLoop_lonmajor(m, gridx, gridy, x) ==
    IF x > Len(gridx) THEN <<>>
    ELSE [y \in DOMAIN gridy |-> Row(gridx[x], gridy[y], ModelCall(m, gridx[x], gridy[y]))]
            \o GridOuterLoop_lonmajor(m, gridx, gridy, x + 1)

\* for y in range(0, yl): gy = gridy[y]; <inner loop>, from position y on
RECURSIVE GridOuterLoop(_, _, _, _)
GridOuterLoop(m, gridx, gridy, y) ==
    IF y > Len(gridy) THEN <<>>
    ELSE GridInnerLoop(m, gridx, gridy[y], 1) \o GridOuterLoop(m, gridx, gridy, y + 1)

\* the points loop pairing LAT[y] with the first longitude
RECURSIVE PointsLoop_firstlon(_, _, _, _)
PointsLoop_firstlon(m, gridx, gridy, y) ==
    IF y > Len(gridy) THEN <<>>
    ELSE <<Row(gridx[1], gridy[y], ModelCall(m, gridx[1], gridy[y]))>>
            \o PointsLoop_firstlon(m, gridx, gridy, y + 1)

\* for y in range(0, yl): gy = gridy[y]; gx = gridx[y]; ..., from position y on
RECURSIVE PointsLoop(_, _, _, _)
PointsLoop(m, gridx, gridy, y) ==
    IF y > Len(gridy) THEN <<>>
    ELSE <<Row(gridx[y], gridy[y], ModelCall(m, gridx[y], gridy[y]))>>
            \o PointsLoop(m, gridx, gridy, y + 1)

\* the transform returning an empty frame when it is given no model
TransformOutcome_nomodel_returns(adc, m, grid_type) ==
    IF m = NoModel THEN <<"returned", <<>>>>
    ELSE IF grid_type = s_grid
    THEN <<"returned", GridOuterLoop(m, adc.LON, adc.LAT, 1)>>
    ELSE IF Len(adc.LAT) > Len(adc.LON)
    THEN <<"IndexError", <<>>>>
    ELSE <<"returned", PointsLoop(m, adc.LON, adc.LAT, 1)>>

\* the outcome of interpolation_model_transform: <<status, rows>>
TransformOutcome(adc, m, grid_type) ==
    IF m = NoModel THEN <<"exit1", <<>>>>
    ELSE IF grid_type = s_grid
    THEN <<"returned", GridOuterLoop(m, adc.LON, adc.LAT, 1)>>
    ELSE IF Len(adc.LAT) > Len(adc.LON)
    THEN <<"IndexError", <<>>>>        \* gridx[y] past the end of the list
    ELSE <<"returned", PointsLoop(m, adc.LON, adc.LAT, 1)>>

interpolation_model_transform ==
    /\ pc = "init"
    /\ \E lon \in Lists(LonVals), lat \in Lists(LatVals), gt \in GridTypes :
          LET adc == [LON |-> lon, LAT |-> lat]
              o == TransformOutcome(adc, model, gt)
          IN  /\ adc_combined' = adc
              /\ input_grid_type' = gt
              /\ pc' = o[1]
              /\ df_out' = o[2]
    /\ UNCHANGED <<harvesterVars, loaderVars, cvVars, df_combined, fill_value, interpolation_type, model,
                   model_refit, list_dfs, fitted>>

\* the training sets whose models the transform is exercised with
TransformFrames ==
    { SelectRows(FitPool, {1, 2, 3, 4, 5}, 1), SelectRows(FitPool, {2, 3, 4, 5, 6}, 1) }

InitTransform ==
    /\ LoaderIdle
    /\ HarvesterIdle
    /\ CvIdle
    /\ \/ /\ df_combined = <<>>
          /\ model = NoModel
       \/ /\ df_combined \in TransformFrames
          /\ \E o \in FitOutcomes(df_combined, RInt(0), s_LinearNDInterpolator) :
                model = o[2]
    /\ fill_value = RInt(0)
    /\ interpolation_type = s_LinearNDInterpolator
    /\ model_refit = NoModel
    /\ adc_combined = [LON |-> <<>>, LAT |-> <<>>]
    /\ input_grid_type = <<>>
    /\ df_out = <<>>
    /\ list_dfs = <<>>
    /\ fitted = <<>>
    /\ pc = "init"

NextTransform == interpolation_model_transform

SpecTransform == InitTransform /\ [][NextTransform]_vars

(***************************************************************************)
(* Claims about the fit and the transform                                  *)
(***************************************************************************)
\* the frame holds at least 4 distinct points, not all on one line
FourNonCollinear(df) == Cardinality(Coords(df)) >= 4 /\ Triples(Coords(df)) # {}

\* C4 (as stated): with at least 4 non-collinear points, the fitted model
\* evaluated at the (LON, LAT) of any training row returns that row's VAL
\* (the rows without a value, which the fit drops, are left out here).
C4_ExactAtEveryRow ==
    (pc = "returned" /\ model # NoModel /\ FourNonCollinear(dropna(df_combined)))
    => \A i \in DOMAIN df_combined :
          df_combined[i].VAL # NaN
          => ModelCall(model, df_combined[i].LON, df_combined[i].LAT) = df_combined[i].VAL

\* row i has a value, and every row at its coordinates has that same value
SingleValued(df, i) ==
    /\ df[i].VAL # NaN
    /\ \A j \in DOMAIN df :
          (df[j].LON = df[i].LON /\ df[j].LAT = df[i].LAT) => df[j].VAL = df[i].VAL

\* C4 (amended): with at least 4 non-collinear valued points, the fitted
\* model evaluated at the (LON, LAT) of a training row returns that row's VAL
\* for every row that has a value and shares its coordinates with no row of
\* another value; at coordinates shared by rows of different values it
\* returns the value of one of them.
C4_ExactAtSingleValuedRows ==
    (pc = "returned" /\ model # NoModel /\ FourNonCollinear(dropna(df_combined)))
    => \A i \in DOMAIN df_combined :
          LET z == ModelCall(model, df_combined[i].LON, df_combined[i].LAT)
          IN  /\ SingleValued(df_combined, i) => z = df_combined[i].VAL
              /\ df_combined[i].VAL # NaN
                    => z \in ValsAt(dropna(df_combined), <<df_combined[i].LON, df_combined[i].LAT>>)

\* C4 witness: a model fitted on five valued rows, two of them on the same
\* corner with different values, the others reproduced exactly
C4_Witness ==
    /\ pc = "returned"
    /\ model # NoModel
    /\ Len(dropna(df_combined)) = 5
    /\ \E i, j \in DOMAIN df_combined : i # j /\ SingleValued(df_combined, i)
          /\ ~SingleValued(df_combined, j) /\ df_combined[j].VAL # NaN
          /\ ModelCall(model, df_combined[i].LON, df_combined[i].LAT) = df_combined[i].VAL

\* C6: in grid mode with a LON axis of length nx and a LAT axis of length ny
\* the transform returns ny*nx rows, and the row at position y*nx + x is
\* (LON[x], LAT[y], model(LON[x], LAT[y])): latitude outer, longitude inner.
C6_GridLatitudeMajor ==
    (pc = "returned" /\ input_grid_type = s_grid)
    => LET nx == Len(adc_combined.LON)
           ny == Len(adc_combined.LAT)
       IN  /\ Len(df_out) = ny * nx
           /\ \A y \in 0..(ny - 1) : \A x \in 0..(nx - 1) :
                 LET gx == adc_combined.LON[x + 1]
                     gy == adc_combined.LAT[y + 1]
                 IN  df_out[y * nx + x + 1] = Row(gx, gy, ModelCall(model, gx, gy))

\* C6 witness: a grid query with nx = 3 and ny = 2 has returned six rows
C6_Witness ==
    /\ pc = "returned"
    /\ input_grid_type = s_grid
    /\ Len(adc_combined.LON) = 3
    /\ Len(adc_combined.LAT) = 2
    /\ Len(df_out) = 6
    /\ adc_combined.LON[1] # adc_combined.LON[2]
    /\ adc_combined.LAT[1] # adc_combined.LAT[2]

\* C7: in points mode with LON and LAT of equal length n the transform
\* returns n rows and row i is (LON[i], LAT[i], model(LON[i], LAT[i])).
C7_PointsElementwise ==
    (pc = "returned" /\ input_grid_type = s_points
        /\ Len(adc_combined.LON) = Len(adc_combined.LAT))
    => /\ Len(df_out) = Len(adc_combined.LON)
       /\ \A i \in DOMAIN adc_combined.LON :
             LET gx == adc_combined.LON[i]
                 gy == adc_combined.LAT[i]
             IN  df_out[i] = Row(gx, gy, ModelCall(model, gx, gy))

\* C7 witness: a points query of three pairs has returned three rows
C7_Witness ==
    /\ pc = "returned"
    /\ input_grid_type = s_points
    /\ Len(adc_combined.LON) = 3
    /\ Len(adc_combined.LAT) = 3
    /\ Len(df_out) = 3
    /\ adc_combined.LON[1] # adc_combined.LON[3]

(***************************************************************************)
(* The inputs of knn_fit_control_points and test_interpolation_fit         *)
(***************************************************************************)
MaxStations == 4
MaxSplits == 3
MaxNeighbors == 3

StationPool ==
    << Row(0, 0, RInt(1)), Row(4, 0, RInt(3)), Row(0, 4, RInt(2)), Row(4, 4, RInt(6)),
       Row(2, 3, RInt(5)), Row(1, 2, RInt(4)), Row(3, 1, RInt(7)) >>

LandPool == << Row(1, 1, RInt(0)), Row(3, 2, RInt(0)) >>

WaterPool == << Row(6, 2, RInt(0)), Row(2, 6, RInt(0)) >>

\* the first n stations of the pool, those at the positions in M without a value
StationFrame(n, M) ==
    [i \in 1..n |-> IF i \in M THEN [StationPool[i] EXCEPT !.VAL = NaN] ELSE StationPool[i]]

StationFrames ==
    UNION { { StationFrame(n, M) : M \in SUBSET (1..n) } : n \in 2..MaxStations }

InitCV ==
    /\ LoaderIdle
    /\ HarvesterIdle
    /\ InterpIdle
    /\ df_source \in StationFrames
    /\ df_land_controls \in { NoFrame, [given |-> TRUE, rows |-> LandPool] }
    /\ df_water_controls \in { NoFrame, [given |-> TRUE, rows |-> WaterPool] }
    /\ cv_splits \in 2..MaxSplits
    /\ nearest_neighbors \in 1..MaxNeighbors
    /\ fold = 0
    /\ cv_folds = <<>>
    /\ kf_dict = <<>>
    /\ kfcntl_dict = <<>>
    /\ fitted = <<>>
    /\ pc = "init"

\* a call knn_fit_control_points(df_source, df_land_controls, nearest_neighbors)
knn_fit_control_points ==
    /\ pc = "init"
    /\ df_land_controls.given
    /\ \E o \in KnnOutcomes(df_source, df_land_controls.rows, nearest_neighbors) :
          /\ pc' = o[1]
          /\ df_land_controls' = [df_land_controls EXCEPT !.rows = o[2]]
    /\ fitted' = Append(fitted, Handed("KNeighborsRegressor.fit", KnnFitRows(df_source)))
    /\ UNCHANGED <<harvesterVars, loaderVars, interpVars, cvInputs, fold, cv_folds, kf_dict, kfcntl_dict>>

NextKnn == knn_fit_control_points

SpecKnn == InitCV /\ [][NextKnn]_vars

(***************************************************************************)
(* test_interpolation_fit                                                  *)
(***************************************************************************)
\* KFold(n_splits=K).split on n rows, no shuffling: fold i tests a
\* contiguous block; the first n % K folds hold one row more.
KFoldSize_even(n, K, i) == n \div K

KFoldSize(n, K, i) == (n \div K) + (IF i <= n % K THEN 1 ELSE 0)

RECURSIVE KFoldStart(_, _, _)
KFoldStart(n, K, i) ==
    IF i = 1 THEN 1 ELSE KFoldStart(n, K, i - 1) + KFoldSize(n, K, i - 1)

\* a split that deals the rows out to the folds in turn
test_index_dealt(n, K, i) == { j \in 1..n : (j - 1) % K = i - 1 }

test_index(n, K, i) == KFoldStart(n, K, i)..(KFoldStart(n, K, i) + KFoldSize(n, K, i) - 1)

train_index(n, K, i) == (1..n) \ test_index(n, K, i)

\* df.iloc[index]
iloc(df, index) == SelectRows(df, index, 1)

\* the VAL column of a frame
ValColumn(df) == [i \in DOMAIN df |-> df[i].VAL]

\* mean_squared_error(y_true, y_pred)
RECURSIVE SumSquaredError(_, _)
SumSquaredError(y_true, y_pred) ==
    IF y_true = <<>> THEN RInt(0)
    ELSE LET e == RSub(Head(y_true), Head(y_pred))
         IN  RAdd(RMul(e, e), SumSquaredError(Tail(y_true), Tail(y_pred)))

mean_squared_error(y_true, y_pred) ==
    RDivInt(SumSquaredError(y_true, y_pred), Len(y_true))

\* the reserved control score of a run without land controls
NoControlScore == -99999

\* {'LON': [...], 'LAT': [...]} of a frame
CoordLists(df) ==
    [LON |-> [i \in DOMAIN df |-> df[i].LON], LAT |-> [i \in DOMAIN df |-> df[i].LAT]]

\* The two KNN calls of one loop iteration, on the one df_land_controls
\* object: <<status, its rows after the first call, its rows after the
\* second>>.  Both df_land_controls_train and df_land_controls_test name
\* that object.
LandControlFits(land, df_source_train, df_source_test, nn) ==
    UNION { IF o1[1] # "returned" THEN { <<o1[1], land, land>> }
            ELSE LET ktest == IF Len(df_source_test) < nn THEN Len(df_source_test) ELSE nn
                 IN  { <<o2[1], o1[2], o2[2]>> :
                         o2 \in KnnOutcomes(df_source_test, o1[2], ktest) } :
            o1 \in KnnOutcomes(df_source_train, land, nn) }

\* the scores of a loop iteration whose station score also takes in the
\* land-control points
FoldScores_withcontrols(m, df_Test, land_given, land_rows) ==
    LET all == df_Test \o (IF land_given THEN land_rows ELSE <<>>)
        df_fit_test_coords == TransformOutcome(CoordLists(all), m, s_points)[2]
        test_mse == mean_squared_error(ValColumn(all), ValColumn(df_fit_test_coords))
        df_fit_land_coords == TransformOutcome(CoordLists(land_rows), m, s_points)[2]
        testcntl_mse ==
            IF land_given
            THEN mean_squared_error(ValColumn(land_rows), ValColumn(df_fit_land_coords))
            ELSE RInt(NoControlScore)
    IN  [test_mse |-> test_mse, testcntl_mse |-> testcntl_mse]

\* the scores of a loop iteration whose control score compares the model
\* with control values of zero
FoldScores_zerocontrols(m, df_Test, land_given, land_rows) ==
    LET df_fit_test_coords == TransformOutcome(CoordLists(df_Test), m, s_points)[2]
        test_mse == mean_squared_error(ValColumn(df_Test), ValColumn(df_fit_test_coords))
        df_fit_land_coords == TransformOutcome(CoordLists(land_rows), m, s_points)[2]
        testcntl_mse ==
            IF land_given
            THEN mean_squared_error([i \in DOMAIN land_rows |-> RInt(0)],
                                    ValColumn(df_fit_land_coords))
            ELSE RInt(NoControlScore)
    IN  [test_mse |-> test_mse, testcntl_mse |-> testcntl_mse]

\* the scores of a loop iteration that scores a run without land controls
\* as zero
FoldScores_zerosentinel(m, df_Test, land_given, land_rows) ==
    LET df_fit_test_coords == TransformOutcome(CoordLists(df_Test), m, s_points)[2]
        test_mse == mean_squared_error(ValColumn(df_Test), ValColumn(df_fit_test_coords))
        df_fit_land_coords == TransformOutcome(CoordLists(land_rows), m, s_points)[2]
        testcntl_mse ==
            IF land_given
            THEN mean_squared_error(ValColumn(land_rows), ValColumn(df_fit_land_coords))
            ELSE RInt(0)
    IN  [test_mse |-> test_mse, testcntl_mse |-> testcntl_mse]

\* What one loop iteration computes from the rows the df_land_controls
\* object holds once both KNN calls are done, with model m.
FoldScores(m, df_Test, land_given, land_rows) ==
    LET df_fit_test_coords == TransformOutcome(CoordLists(df_Test), m, s_points)[2]
        test_mse == mean_squared_error(ValColumn(df_Test), ValColumn(df_fit_test_coords))
        df_fit_land_coords == TransformOutcome(CoordLists(land_rows), m, s_points)[2]
        testcntl_mse ==
            IF land_given
            THEN mean_squared_error(ValColumn(land_rows), ValColumn(df_fit_land_coords))
            ELSE RInt(NoControlScore)
    IN  [test_mse |-> test_mse, testcntl_mse |-> testcntl_mse]

\* pd.concat of frames: their rows one after the other, each with the
\* columns of all the frames, missing where its own frame has no such column
ConcatRows(rows) ==
    LET cols == UNION { DOMAIN rows[i] : i \in DOMAIN rows }
    IN  [i \in DOMAIN rows |->
            [c \in cols |-> IF c \in DOMAIN rows[i] THEN rows[i][c] ELSE NaN]]

\* pd.concat(train_list, ignore_index=True), read when the loop reaches it
TrainConcat(df_source_train, land_given, land_rows, water) ==
    ConcatRows(df_source_train \o (IF land_given THEN land_rows ELSE <<>>)
                               \o (IF water.given THEN water.rows ELSE <<>>))

\* One iteration of the loop over kf.split(df_source_drop), for fold f:
\* the records [status, land, ...] it can end with.
FoldOutcomes(df_source_drop, land, water, K, nn, f) ==
    LET n == Len(df_source_drop)
        tr == train_index(n, K, f)
        te == test_index(n, K, f)
        df_source_train == iloc(df_source_drop, tr)
        df_source_test == iloc(df_source_drop, te)
        base == [status |-> "returned", train_index |-> tr, test_index |-> te,
                 land_after_train_fit |-> land.rows, land |-> land.rows,
                 df_Train |-> <<>>, model |-> NoModel,
                 test_mse |-> NaN, testcntl_mse |-> NaN]
        fits == IF land.given
                THEN LandControlFits(land.rows, df_source_train, df_source_test, nn)
                ELSE { <<"returned", land.rows, land.rows>> }
    IN  UNION {
          IF a[1] # "returned"
          THEN { [base EXCEPT !.status = a[1], !.land_after_train_fit = a[2], !.land = a[3]] }
          ELSE LET df_Train == TrainConcat(df_source_train, land.given, a[3], water)
               IN  { IF o[1] # "returned"
                     THEN [base EXCEPT !.status = o[1], !.land_after_train_fit = a[2],
                                       !.land = a[3], !.df_Train = df_Train]
                     ELSE LET sc == FoldScores(o[2], df_source_test, land.given, a[3])
                          IN  [base EXCEPT !.land_after_train_fit = a[2], !.land = a[3],
                                           !.df_Train = df_Train, !.model = o[2],
                                           !.test_mse = sc.test_mse,
                                           !.testcntl_mse = sc.testcntl_mse] :
                     o \in FitOutcomes(df_Train, RInt(0), s_LinearNDInterpolator) } :
          a \in fits }

FoldKeys(name, K) == { <<name, i>> : i \in 1..K }

\* lines 311-320: the missing-value purge is recomputed where it is used;
\* the two reports start with an empty list per fold
test_interpolation_fit_begin ==
    /\ pc = "init"
    /\ pc' = "loop"
    /\ fold' = 0
    /\ kf_dict' = [k \in FoldKeys("fold", cv_splits) |-> <<>>]
    /\ kfcntl_dict' = [k \in FoldKeys("Cnrl_fold", cv_splits) |-> <<>>]
    /\ UNCHANGED <<harvesterVars, loaderVars, interpVars, cvInputs, df_land_controls, cv_folds, fitted>>

\* df_source_drop: the station rows that kf.split cuts into folds
SplitRows(df) == dropna(df)

\* the rows the fitting steps of one loop iteration were handed, in call
\* order, r being what the iteration computed
FoldFitted(df_source_drop, land_given, r, first) ==
    (IF first THEN <<Handed("KFold.split", df_source_drop)>> ELSE <<>>)
    \o (IF land_given
        THEN <<Handed("KNeighborsRegressor.fit",
                      KnnFitRows(iloc(df_source_drop, r.train_index)))>>
        ELSE <<>>)
    \o (IF land_given /\ r.df_Train # <<>>
        THEN <<Handed("KNeighborsRegressor.fit",
                      KnnFitRows(iloc(df_source_drop, r.test_index)))>>
        ELSE <<>>)
    \o (IF r.df_Train # <<>>
        THEN <<Handed("interpolant", InterpolantRows(r.df_Train))>>
        ELSE <<>>)

\* lines 321-353: one iteration of the loop
test_interpolation_fit_fold ==
    /\ pc = "loop"
    /\ fold < cv_splits
    /\ LET df_source_drop == SplitRows(df_source)
       IN  IF cv_splits > Len(df_source_drop)
           THEN /\ pc' = "ValueError"            \* raised by kf.split
                /\ fitted' = Append(fitted, Handed("KFold.split", df_source_drop))
                /\ UNCHANGED <<fold, df_land_controls, cv_folds, kf_dict, kfcntl_dict>>
           ELSE \E r \in FoldOutcomes(df_source_drop, df_land_controls, df_water_controls,
                                      cv_splits, nearest_neighbors, fold + 1) :
                  /\ fold' = fold + 1
                  /\ fitted' = fitted \o FoldFitted(df_source_drop, df_land_controls.given,
                                                     r, fold = 0)
                  /\ df_land_controls' = [df_land_controls EXCEPT !.rows = r.land]
                  /\ cv_folds' = Append(cv_folds, r)
                  /\ IF r.status = "returned"
                     THEN /\ pc' = "loop"
                          /\ kf_dict' = [kf_dict EXCEPT ![<<"fold", fold + 1>>] =
                                                            Append(@, r.test_mse)]
                          /\ kfcntl_dict' = [kfcntl_dict EXCEPT ![<<"Cnrl_fold", fold + 1>>] =
                                                                  Append(@, r.testcntl_mse)]
                     ELSE /\ pc' = r.status
                          /\ UNCHANGED <<kf_dict, kfcntl_dict>>
    /\ UNCHANGED <<harvesterVars, loaderVars, interpVars, cvInputs>>

\* max() over the one-element score lists of a report
MinList_max(d) ==
    CHOOSE l \in Range(d) : \A o \in Range(d) : l = o \/ ~RLess(l[1], o[1])

\* min() over the one-element score lists of a report
MinList(d) ==
    CHOOSE l \in Range(d) : \A o \in Range(d) : l = o \/ ~RLess(o[1], l[1])

\* the sum of the first scores of the fold lists 1..i
RECURSIVE SumFolds(_, _, _)
SumFolds(d, name, i) ==
    IF i = 0 THEN RInt(0) ELSE RAdd(SumFolds(d, name, i - 1), d[<<name, i>>][1])

\* d[key] = value on a dict
DictSet(d, key, value) ==
    [k \in DOMAIN d \cup {key} |-> IF k = key THEN value ELSE d[k]]

\* lines 355-368: best score and mean of each report
test_interpolation_fit_end ==
    /\ pc = "loop"
    /\ fold = cv_splits
    /\ pc' = "returned"
    /\ kf_dict' = DictSet(DictSet(kf_dict, <<"best">>, MinList(kf_dict)), <<"avgMSE">>,
                          RDivInt(SumFolds(kf_dict, "fold", cv_splits), cv_splits))
    /\ kfcntl_dict' = DictSet(DictSet(kfcntl_dict, <<"best_cntl">>, MinList(kfcntl_dict)),
                              <<"avgCnrlMSE">>,
                              RDivInt(SumFolds(kfcntl_dict, "Cnrl_fold", cv_splits), cv_splits))
    /\ UNCHANGED <<harvesterVars, loaderVars, interpVars, cvInputs, df_land_controls, fold, cv_folds, fitted>>

NextCV ==
    \/ test_interpolation_fit_begin
    \/ test_interpolation_fit_fold
    \/ test_interpolation_fit_end

SpecCV == InitCV /\ [][NextCV]_vars

(***************************************************************************)
(* Claims about the KNN fit and the cross-validation                       *)
(***************************************************************************)
\* the land-control rows inside the training set of a finished iteration
LandRowsOf(r) ==
    SubSeq(r.df_Train, Cardinality(r.train_index) + 1,
           Cardinality(r.train_index) + Len(LandPool))

\* C1: with land controls supplied, the land-control rows that enter a
\* fold's training set carry the values KNN-fitted from that fold's train
\* stations with the configured neighbor count, not those fitted from its
\* test stations.
C1_TrainingSetCarriesTrainFit ==
    \A f \in DOMAIN cv_folds :
        LET r == cv_folds[f]
        IN  (df_land_controls.given /\ r.df_Train # <<>>)
            => <<"returned", LandRowsOf(r)>> \in
                  KnnOutcomes(iloc(dropna(df_source), r.train_index), LandRowsOf(r),
                              nearest_neighbors)

KnnCalled == pc \in {"returned", "ValueError"} /\ df_land_controls.given

\* C2: knn_fit_control_points with nearest_neighbors greater than the number
\* n >= 1 of valued source rows does not fail and returns what it returns
\* with nearest_neighbors = n.
C2_NeighborCap ==
    LET n == Len(dropna(df_source))
    IN  (KnnCalled /\ n >= 1 /\ nearest_neighbors > n)
        => /\ pc = "returned"
           /\ <<"returned", df_land_controls.rows>> \in
                 KnnOutcomes(df_source, df_land_controls.rows, n)

\* C3: test_interpolation_fit (through knn_fit_control_points) does not
\* modify the caller's land-control set: once the call is over the set has
\* the VAL column it had before the call.
C3_LandControlsUnmodified ==
    (pc # "init" /\ df_land_controls.given)
    => ValColumn(df_land_controls.rows) = ValColumn(LandPool)

\* C5: for a purged station set of size n and 2 <= K <= n the test subsets
\* of the folds are pairwise disjoint, each fold's train subset is the
\* complement of its test subset, and the K test subsets together are the
\* whole index set.
C5_FoldsPartition ==
    LET n == Len(dropna(df_source))
    IN  /\ \A f \in DOMAIN cv_folds :
              /\ cv_folds[f].test_index \subseteq 1..n
              /\ cv_folds[f].train_index = (1..n) \ cv_folds[f].test_index
        /\ \A f, g \in DOMAIN cv_folds :
              f # g => cv_folds[f].test_index \cap cv_folds[g].test_index = {}
        /\ Len(cv_folds) = cv_splits
              => UNION { cv_folds[f].test_index : f \in DOMAIN cv_folds } = 1..n

\* C5 witness: three folds over four stations (sizes 2, 1, 1) have run
C5_Witness ==
    /\ pc = "returned"
    /\ cv_splits = 3
    /\ Len(dropna(df_source)) = 4
    /\ Len(cv_folds) = 3
    /\ Cardinality(cv_folds[1].test_index) = 2
    /\ Cardinality(cv_folds[3].test_index) = 1

(***************************************************************************)
(* combine_datasets_for_interpolation.  Here a frame is                    *)
(* [columns, rows]: its set of column names and a sequence of rows, each a *)
(* function from the column names to the entries.                          *)
(***************************************************************************)
MaxFrames == 3

LonLatVal == {"LON", "LAT", "VAL"}

\* one row of a frame with the columns cols
FrameRow(cols, x, y, v, id) ==
    [c \in cols |-> IF c = "LON" THEN <<x>> ELSE IF c = "LAT" THEN <<y>>
                    ELSE IF c = "VAL" THEN v ELSE <<id>>]

\* Candidate inputs: a station frame with an id column and a missing value,
\* a control frame that repeats one of its triples, a one-row frame, an
\* empty frame, and a frame without a VAL column.
CombinePool ==
    LET st == LonLatVal \cup {"STATIONID"}
    IN  { [columns |-> st,
           rows |-> << FrameRow(st, 0, 0, RInt(1), 8), FrameRow(st, 4, 0, NaN, 9) >>],
          [columns |-> LonLatVal,
           rows |-> << FrameRow(LonLatVal, 0, 0, RInt(1), 0),
                       FrameRow(LonLatVal, 1, 1, RInt(0), 0) >>],
          [columns |-> LonLatVal, rows |-> << FrameRow(LonLatVal, 6, 2, RInt(0), 0) >>],
          [columns |-> LonLatVal, rows |-> << >>],
          [columns |-> {"LON", "LAT"}, rows |-> << FrameRow({"LON", "LAT"}, 2, 6, NaN, 0) >>] }

FrameLists == UNION { [1..n -> CombinePool] : n \in 0..MaxFrames }

\* df[['LON','LAT','VAL']] on the rows of a frame that has the three columns
ProjectRows(df) ==
    [i \in DOMAIN df.rows |->
        Row(df.rows[i]["LON"][1], df.rows[i]["LAT"][1], df.rows[i]["VAL"])]

\* pd.concat that also drops the rows without a value
RECURSIVE CombineConcat_dropna(_)
CombineConcat_dropna(filtered_dataframes) ==
    IF filtered_dataframes = <<>> THEN <<>>
    ELSE dropna(Head(filtered_dataframes)) \o CombineConcat_dropna(Tail(filtered_dataframes))

\* pd.concat(filtered_dataframes, ignore_index=True)
RECURSIVE CombineConcat(_)
CombineConcat(filtered_dataframes) ==
    IF filtered_dataframes = <<>> THEN <<>>
    ELSE Head(filtered_dataframes) \o CombineConcat(Tail(filtered_dataframes))

\* the outcome of combine_datasets_for_interpolation: <<status, rows>>
CombineOutcome(dfs) ==
    IF \E i \in DOMAIN dfs : ~(LonLatVal \subseteq dfs[i].columns)
    THEN <<"NameError", <<>>>>       \* the handler of the KeyError uses 'template'
    ELSE IF dfs = <<>>
    THEN <<"ValueError", <<>>>>      \* pd.concat: no objects to concatenate
    ELSE <<"returned", CombineConcat([i \in DOMAIN dfs |-> ProjectRows(dfs[i])])>>

combine_datasets_for_interpolation ==
    /\ pc = "init"
    /\ pc' = CombineOutcome(list_dfs)[1]
    /\ df_combined' = CombineOutcome(list_dfs)[2]
    /\ UNCHANGED <<harvesterVars, loaderVars, cvVars, fill_value, interpolation_type, model, model_refit,
                   adc_combined, input_grid_type, df_out, list_dfs, fitted>>

InitCombine ==
    /\ LoaderIdle
    /\ HarvesterIdle
    /\ CvIdle
    /\ list_dfs \in FrameLists
    /\ df_combined = <<>>
    /\ fill_value = RInt(0)
    /\ interpolation_type = <<>>
    /\ model = NoModel
    /\ model_refit = NoModel
    /\ adc_combined = [LON |-> <<>>, LAT |-> <<>>]
    /\ input_grid_type = <<>>
    /\ df_out = <<>>
    /\ fitted = <<>>
    /\ pc = "init"

NextCombine == combine_datasets_for_interpolation

SpecCombine == InitCombine /\ [][NextCombine]_vars

\* how often the triple x occurs among the rows df
CountRows(df, x) == Cardinality({ i \in DOMAIN df : df[i] = x })

\* how often the triple x occurs in the frames of the list dfs together
RECURSIVE CountInFrames(_, _)
CountInFrames(dfs, x) ==
    IF dfs = <<>> THEN 0
    ELSE Cardinality({ i \in DOMAIN Head(dfs).rows :
                         /\ Head(dfs).rows[i]["LON"] = <<x.LON>>
                         /\ Head(dfs).rows[i]["LAT"] = <<x.LAT>>
                         /\ Head(dfs).rows[i]["VAL"] = x.VAL })
         + CountInFrames(Tail(dfs), x)

RECURSIVE TotalRows(_)
TotalRows(dfs) == IF dfs = <<>> THEN 0 ELSE Len(Head(dfs).rows) + TotalRows(Tail(dfs))

ListOrders(n) == { p \in [1..n -> 1..n] : \A i, j \in 1..n : p[i] = p[j] => i = j }

\* C11: the combined set has the columns LON, LAT, VAL only; it holds every
\* (lon, lat, value) triple as often as the input sets hold it together (row
\* count = sum of the input row counts, nothing dropped or deduplicated);
\* and the input list in any other order gives the same multiset.
C11_CombineIsMultisetUnion ==
    (pc = "returned" /\ list_dfs # <<>>)
    => /\ \A i \in DOMAIN df_combined : DOMAIN df_combined[i] = LonLatVal
       /\ Len(df_combined) = TotalRows(list_dfs)
       /\ \A i \in DOMAIN df_combined :
             CountRows(df_combined, df_combined[i]) = CountInFrames(list_dfs, df_combined[i])
       /\ \A p \in ListOrders(Len(list_dfs)) :
             LET o == CombineOutcome([i \in DOMAIN list_dfs |-> list_dfs[p[i]]])
             IN  /\ o[1] = "returned"
                 /\ Len(o[2]) = Len(df_combined)
                 /\ \A i \in DOMAIN df_combined :
                       CountRows(o[2], df_combined[i]) = CountRows(df_combined, df_combined[i])

\* C11 witness: three different frames combined, one triple held twice, one
\* row without a value kept, the id column gone
C11_Witness ==
    /\ pc = "returned"
    /\ Len(list_dfs) = 3
    /\ \E i \in DOMAIN list_dfs : "STATIONID" \in list_dfs[i].columns
    /\ \E i \in DOMAIN df_combined : CountRows(df_combined, df_combined[i]) = 2
    /\ \E i \in DOMAIN df_combined : df_combined[i].VAL = NaN
    /\ Len(df_combined) = 5

(***************************************************************************)
(* Claims about the interpolant's name, the missing model and the fill     *)
(* value                                                                   *)
(***************************************************************************)
\* the names a and b differ in the case of their letters at most
SameNameIgnoringCase(a, b) ==
    /\ Len(a) = Len(b)
    /\ \A i \in DOMAIN a : UpperChar(a[i]) = UpperChar(b[i])

SupportedName(a) ==
    \/ SameNameIgnoringCase(a, s_LinearNDInterpolator)
    \/ SameNameIgnoringCase(a, s_CloughTocher2DInterpolator)

\* C12: interpolation_model_fit ends with exit status 1 exactly when the
\* interpolation_type is, case ignored, neither LinearNDInterpolator nor
\* CloughTocher2DInterpolator, and then no model has been built.
C12_UnknownNameExits ==
    (pc # "init")
    => /\ (pc = "exit1") <=> ~SupportedName(interpolation_type)
       /\ SupportedName(interpolation_type)
             => (pc = "returned" <=> Triples(Coords(dropna(df_combined))) # {})
       /\ pc = "exit1" => model = NoModel

\* C12 witness: the name 'nearest' ended the run although the rows would
\* have made a model
C12_Witness ==
    /\ pc = "exit1"
    /\ interpolation_type = s_nearest
    /\ FourNonCollinear(dropna(df_combined))
    /\ model = NoModel

\* C13: interpolation_model_transform without a model ends with exit status
\* 1 and no rows, whatever the query mode and the coordinate lists; with a
\* model it does not end that way.
C13_NoModelExits ==
    (pc # "init")
    => /\ model = NoModel => (pc = "exit1" /\ df_out = <<>>)
       /\ pc = "exit1" => model = NoModel

\* C13 witness: a grid query of 2 x 3 coordinates without a model
C13_Witness ==
    /\ pc = "exit1"
    /\ model = NoModel
    /\ input_grid_type = s_grid
    /\ Len(adc_combined.LON) = 2
    /\ Len(adc_combined.LAT) = 3
    /\ df_out = <<>>

\* A fit with either interpolant and either fill value, followed by a
\* transform.
InitEval ==
    /\ LoaderIdle
    /\ HarvesterIdle
    /\ CvIdle
    /\ df_combined \in TransformFrames
    /\ fill_value \in FillValues
    /\ interpolation_type \in {s_LinearNDInterpolator, s_CloughTocher2DInterpolator}
    /\ \E o \in FitOutcomes(df_combined, fill_value, interpolation_type) : model = o[2]
    /\ model_refit = NoModel
    /\ adc_combined = [LON |-> <<>>, LAT |-> <<>>]
    /\ input_grid_type = <<>>
    /\ df_out = <<>>
    /\ list_dfs = <<>>
    /\ fitted = <<>>
    /\ pc = "init"

NextEval == interpolation_model_transform

SpecEval == InitEval /\ [][NextEval]_vars

\* q is in no triangle spanned by three points of P: outside their hull
OutsideHull(P, q) == \A t \in Triples(P) : ~InTriangle(q, t)

\* C14: every point of a query that lies outside the convex hull of the
\* valued training points gets exactly the fill value the model was fitted
\* with, for both interpolants.
C14_FillOutsideHull ==
    (pc = "returned")
    => \A i \in DOMAIN df_out :
          OutsideHull(Coords(dropna(df_combined)), <<df_out[i].LON, df_out[i].LAT>>)
          => df_out[i].VAL = fill_value

\* C14 witness: a Clough-Tocher model with fill value -1 queried at a point
\* outside the hull and at one inside it
C14_Witness ==
    /\ pc = "returned"
    /\ model.kind = s_CLOUGHTOCHER2DINTERPOLATOR
    /\ fill_value = RInt(-1)
    /\ \E i, j \in DOMAIN df_out :
          /\ OutsideHull(Coords(dropna(df_combined)), <<df_out[i].LON, df_out[i].LAT>>)
          /\ df_out[i].VAL = RInt(-1)
          /\ ~OutsideHull(Coords(dropna(df_combined)), <<df_out[j].LON, df_out[j].LAT>>)
          /\ df_out[j].VAL # RInt(-1)

(***************************************************************************)
(* Claims about the scores of the cross-validation                         *)
(***************************************************************************)
\* the sum over the stations of df at the positions in S of the squared
\* difference between the model at the station and the station's value
RECURSIVE StationErrorSum(_, _, _)
StationErrorSum(m, df, S) ==
    IF S = {} THEN RInt(0)
    ELSE LET i == CHOOSE j \in S : TRUE
             e == RSub(ModelCall(m, df[i].LON, df[i].LAT), df[i].VAL)
         IN  RAdd(RMul(e, e), StationErrorSum(m, df, S \ {i}))

FoldReturned(f) == f \in DOMAIN cv_folds /\ cv_folds[f].status = "returned"

\* C15: the station score of a fold is the mean, over the fold's test
\* stations and nothing else, of the squared difference between the fold's
\* model at the station's coordinates and the station's value; it is the
\* one entry of the fold's list in the station report.
C15_StationScore ==
    \A f \in DOMAIN cv_folds :
        LET r == cv_folds[f]
        IN  FoldReturned(f)
            => /\ r.test_mse = RDivInt(StationErrorSum(r.model, dropna(df_source), r.test_index),
                                       Cardinality(r.test_index))
               /\ kf_dict[<<"fold", f>>] = <<r.test_mse>>

\* C15 witness: a fold with land and water controls in its training set,
\* two test stations and a station score above zero
C15_Witness ==
    /\ df_land_controls.given
    /\ df_water_controls.given
    /\ \E f \in DOMAIN cv_folds :
          /\ FoldReturned(f)
          /\ Cardinality(cv_folds[f].test_index) = 2
          /\ RLess(RInt(0), cv_folds[f].test_mse)

\* the sum over the control rows, from position i on, of the squared
\* difference between the model at the control point and the row's value
RECURSIVE ControlErrorSum(_, _, _)
ControlErrorSum(m, controls, i) ==
    IF i > Len(controls) THEN RInt(0)
    ELSE LET e == RSub(controls[i].VAL, ModelCall(m, controls[i].LON, controls[i].LAT))
         IN  RAdd(RMul(e, e), ControlErrorSum(m, controls, i + 1))

SmallerOf(a, b) == IF a < b THEN a ELSE b

\* C16: with land controls, the control score of a fold is the mean squared
\* difference between the fold's model at the land-control coordinates and
\* the land-control values KNN-fitted from the fold's test stations with
\* min(|test|, nearest_neighbors) neighbors; it is the one entry of the
\* fold's list in the control report.
C16_ControlScore ==
    \A f \in DOMAIN cv_folds :
        LET r == cv_folds[f]
            test == iloc(dropna(df_source), r.test_index)
        IN  (FoldReturned(f) /\ df_land_controls.given)
            => /\ \E o \in KnnOutcomes(test, LandPool, SmallerOf(Len(test), nearest_neighbors)) :
                     /\ o[1] = "returned"
                     /\ r.testcntl_mse = RDivInt(ControlErrorSum(r.model, o[2], 1), Len(LandPool))
               /\ kfcntl_dict[<<"Cnrl_fold", f>>] = <<r.testcntl_mse>>

\* C16 witness: a fold with land controls whose test stations are fewer
\* than nearest_neighbors, with its control score in the report
C16_Witness ==
    /\ df_land_controls.given
    /\ \E f \in DOMAIN cv_folds :
          /\ FoldReturned(f)
          /\ Cardinality(cv_folds[f].test_index) < nearest_neighbors
          /\ cv_folds[f].testcntl_mse # NaN
          /\ kfcntl_dict[<<"Cnrl_fold", f>>] = <<cv_folds[f].testcntl_mse>>

\* the call has returned its report, and it was made without land controls
ReportedWithoutControls == pc = "returned" /\ fold = cv_splits /\ ~df_land_controls.given

\* every per-fold entry of the control report is the sentinel, not zero
SentinelPerFold ==
    \A f \in 1..cv_splits :
        /\ kfcntl_dict[<<"Cnrl_fold", f>>] = <<RInt(NoControlScore)>>
        /\ kfcntl_dict[<<"Cnrl_fold", f>>][1] # RInt(0)

\* C17 (as stated): without land controls every per-fold control score is
\* the sentinel -99999 and never 0, and best_cntl and avgCnrlMSE equal the
\* sentinel as well.
C17_SentinelEverywhere ==
    ReportedWithoutControls
    => /\ SentinelPerFold
       /\ kfcntl_dict[<<"best_cntl">>] = RInt(NoControlScore)
       /\ kfcntl_dict[<<"avgCnrlMSE">>] = RInt(NoControlScore)

\* C17 (amended): without land controls every per-fold control score is the
\* sentinel -99999 and never 0, avgCnrlMSE equals the sentinel, and
\* best_cntl is a one-element list that holds the sentinel.
C17_SentinelReported ==
    ReportedWithoutControls
    => /\ SentinelPerFold
       /\ kfcntl_dict[<<"best_cntl">>] = <<RInt(NoControlScore)>>
       /\ kfcntl_dict[<<"avgCnrlMSE">>] = RInt(NoControlScore)

\* C17 witness: a report of three folds made without land controls
C17_Witness ==
    /\ ReportedWithoutControls
    /\ cv_splits = 3
    /\ DOMAIN kfcntl_dict = FoldKeys("Cnrl_fold", 3) \cup {<<"best_cntl">>, <<"avgCnrlMSE">>}
    /\ kfcntl_dict[<<"Cnrl_fold", 3>>] = <<RInt(NoControlScore)>>

\* the sum of a sequence of rationals
RECURSIVE SeqSum(_)
SeqSum(q) == IF q = <<>> THEN RInt(0) ELSE RAdd(Head(q), SeqSum(Tail(q)))

StationScores == [f \in DOMAIN cv_folds |-> cv_folds[f].test_mse]
ControlScores == [f \in DOMAIN cv_folds |-> cv_folds[f].testcntl_mse]

\* m is the least of the scores q
LeastOf(q, m) == (\E f \in DOMAIN q : q[f] = m) /\ (\A f \in DOMAIN q : ~RLess(q[f], m))

\* the keys of the two reports, one score per fold, and the two means
ReportFoldsAndMeans ==
    /\ DOMAIN kf_dict = FoldKeys("fold", cv_splits) \cup {<<"best">>, <<"avgMSE">>}
    /\ DOMAIN kfcntl_dict =
          FoldKeys("Cnrl_fold", cv_splits) \cup {<<"best_cntl">>, <<"avgCnrlMSE">>}
    /\ \A f \in 1..cv_splits :
          /\ kf_dict[<<"fold", f>>] = <<StationScores[f]>>
          /\ kfcntl_dict[<<"Cnrl_fold", f>>] = <<ControlScores[f]>>
    /\ kf_dict[<<"avgMSE">>] = RDivInt(SeqSum(StationScores), cv_splits)
    /\ kfcntl_dict[<<"avgCnrlMSE">>] = RDivInt(SeqSum(ControlScores), cv_splits)

Reported == pc = "returned" /\ fold = cv_splits

\* C18 (as stated): the report holds fold_i and Cnrl_fold_i for i in 1..K
\* with exactly one score each, avgMSE and avgCnrlMSE are the means of the K
\* scores of their series, and best and best_cntl equal the minimum score of
\* their series.
C18_ReportBestIsScore ==
    Reported
    => /\ ReportFoldsAndMeans
       /\ LeastOf(StationScores, kf_dict[<<"best">>])
       /\ LeastOf(ControlScores, kfcntl_dict[<<"best_cntl">>])

\* C18 (amended): as above, except that best and best_cntl are one-element
\* lists that hold the minimum score of their series.
C18_ReportBestIsList ==
    Reported
    => /\ ReportFoldsAndMeans
       /\ Len(kf_dict[<<"best">>]) = 1
       /\ LeastOf(StationScores, kf_dict[<<"best">>][1])
       /\ Len(kfcntl_dict[<<"best_cntl">>]) = 1
       /\ LeastOf(ControlScores, kfcntl_dict[<<"best_cntl">>][1])

\* C18 witness: a report of three folds whose best station score is below
\* the mean
C18_Witness ==
    /\ Reported
    /\ cv_splits = 3
    /\ RLess(kf_dict[<<"best">>][1], kf_dict[<<"avgMSE">>])
    /\ \E f \in 1..3 : RLess(kf_dict[<<"best">>][1], StationScores[f])

(***************************************************************************)
(* Missing values: the three calls that hand rows to a fitting step, each  *)
(* on inputs that hold rows without a value                                *)
(***************************************************************************)
\* training sets with a row without a value: one that leaves four valued
\* points, one that leaves two
MissingFrames ==
    { SelectRows(FitPool, {1, 2, 3, 5, 7}, 1), SelectRows(FitPool, {1, 2, 7}, 1) }

InitMissing ==
    /\ LoaderIdle
    /\ HarvesterIdle
    /\ df_source \in StationFrames
    /\ df_land_controls \in { NoFrame, [given |-> TRUE, rows |-> LandPool] }
    /\ df_water_controls \in { NoFrame, [given |-> TRUE, rows |-> WaterPool] }
    /\ cv_splits \in 2..MaxSplits
    /\ nearest_neighbors \in 1..MaxNeighbors
    /\ fold = 0
    /\ cv_folds = <<>>
    /\ kf_dict = <<>>
    /\ kfcntl_dict = <<>>
    /\ df_combined \in MissingFrames
    /\ fill_value = RInt(0)
    /\ interpolation_type = s_LinearNDInterpolator
    /\ model = NoModel
    /\ model_refit = NoModel
    /\ adc_combined = [LON |-> <<>>, LAT |-> <<>>]
    /\ input_grid_type = <<>>
    /\ df_out = <<>>
    /\ list_dfs = <<>>
    /\ fitted = <<>>
    /\ pc = "init"

NextMissing ==
    \/ knn_fit_control_points
    \/ interpolation_model_fit
    \/ test_interpolation_fit_begin
    \/ test_interpolation_fit_fold
    \/ test_interpolation_fit_end

SpecMissing == InitMissing /\ [][NextMissing]_vars

\* the rows of df that have a value, in their order
ValuedRows(df) == SelectRows(df, { i \in DOMAIN df : df[i].VAL # NaN }, 1)

\* C19: every row handed to the KNN regressor's fit, to the interpolant
\* constructor and to the fold split has a value; what the called function
\* hands on is its input without the rows that lack a value; and the run
\* never exits, and fails only where the valued rows alone are too few for
\* the step they were handed to.
C19_NoMissingValueFitted ==
    /\ \A k \in DOMAIN fitted :
          \A i \in DOMAIN fitted[k].rows : fitted[k].rows[i].VAL # NaN
    /\ fitted # <<>>
          => fitted[1].rows =
                ValuedRows(IF fitted[1].step = "interpolant" THEN df_combined ELSE df_source)
    /\ pc # "exit1"
    /\ pc \in {"ValueError", "NameError"}
          => /\ fitted # <<>>
             /\ LET last == fitted[Len(fitted)]
                IN  \/ /\ last.step = "KNeighborsRegressor.fit"
                       /\ Len(last.rows) < nearest_neighbors
                    \/ /\ last.step = "interpolant"
                       /\ Triples(Coords(last.rows)) = {}
                    \/ /\ last.step = "KFold.split"
                       /\ Len(last.rows) < cv_splits

\* C19 witness: a cross-validation over stations of which one has no value
\* has split the three others and returned its report
C19_Witness ==
    /\ pc = "returned"
    /\ fold = cv_splits
    /\ Len(df_source) = 4
    /\ fitted[1] = Handed("KFold.split", ValuedRows(df_source))
    /\ Len(fitted[1].rows) = 3
    /\ \E k \in DOMAIN fitted : fitted[k].step = "interpolant"

(***************************************************************************)
(* The loop body of test_interpolation_fit run once per fold in execution  *)
(* contexts of their own, their steps interleaved.  Each context has its   *)
(* own locals (cv_folds[f]: the index sets, df_Train, the model, the       *)
(* scores; status is its position); df_land_controls is the one object     *)
(* every context was given, and the station and water frames are only      *)
(* read.                                                                   *)
(***************************************************************************)
\* the locals of the context of fold f before its first step
FoldContext(df_source_drop, land, K, f) ==
    [status |-> "start",
     train_index |-> train_index(Len(df_source_drop), K, f),
     test_index |-> test_index(Len(df_source_drop), K, f),
     land_after_train_fit |-> land.rows, land |-> land.rows,
     df_Train |-> <<>>, model |-> NoModel, test_mse |-> NaN, testcntl_mse |-> NaN]

InitFolds ==
    /\ LoaderIdle
    /\ HarvesterIdle
    /\ InterpIdle
    /\ df_source \in { StationFrame(n, {}) : n \in 2..MaxStations }
    /\ df_land_controls \in { NoFrame, [given |-> TRUE, rows |-> LandPool] }
    /\ df_water_controls \in { NoFrame, [given |-> TRUE, rows |-> WaterPool] }
    /\ cv_splits = 2                     \* two contexts
    /\ nearest_neighbors \in 1..MaxNeighbors
    /\ fold = 0
    /\ cv_folds = [f \in 1..cv_splits |->
                     FoldContext(SplitRows(df_source), df_land_controls, cv_splits, f)]
    /\ kf_dict = [k \in FoldKeys("fold", cv_splits) |-> <<>>]
    /\ kfcntl_dict = [k \in FoldKeys("Cnrl_fold", cv_splits) |-> <<>>]
    /\ fitted = <<Handed("KFold.split", SplitRows(df_source))>>
    /\ pc = "loop"

\* line 328 in the context of fold f
fold_knn_train(f) ==
    /\ pc = "loop"
    /\ cv_folds[f].status = "start"
    /\ df_land_controls.given
    /\ LET df_source_train == iloc(SplitRows(df_source), cv_folds[f].train_index)
       IN  /\ \E o \in KnnOutcomes(df_source_train, df_land_controls.rows, nearest_neighbors) :
                /\ df_land_controls' = [df_land_controls EXCEPT !.rows = o[2]]
                /\ cv_folds' = [cv_folds EXCEPT
                                  ![f].status = IF o[1] = "returned" THEN "knn_train" ELSE o[1],
                                  ![f].land_after_train_fit = o[2]]
           /\ fitted' = Append(fitted, Handed("KNeighborsRegressor.fit",
                                              KnnFitRows(df_source_train)))
    /\ UNCHANGED <<harvesterVars, loaderVars, interpVars, cvInputs, fold, kf_dict, kfcntl_dict, pc>>

\* lines 329-330 in the context of fold f
fold_knn_test(f) ==
    /\ pc = "loop"
    /\ cv_folds[f].status = "knn_train"
    /\ LET df_source_test == iloc(SplitRows(df_source), cv_folds[f].test_index)
           ktest == IF Len(df_source_test) < nearest_neighbors
                    THEN Len(df_source_test) ELSE nearest_neighbors
       IN  /\ \E o \in KnnOutcomes(df_source_test, df_land_controls.rows, ktest) :
                /\ df_land_controls' = [df_land_controls EXCEPT !.rows = o[2]]
                /\ cv_folds' = [cv_folds EXCEPT
                                  ![f].status = IF o[1] = "returned" THEN "knn_test" ELSE o[1]]
           /\ fitted' = Append(fitted, Handed("KNeighborsRegressor.fit",
                                              KnnFitRows(df_source_test)))
    /\ UNCHANGED <<harvesterVars, loaderVars, interpVars, cvInputs, fold, kf_dict, kfcntl_dict, pc>>

\* lines 331-339 in the context of fold f: the frames of train_list are
\* read when pd.concat copies them
fold_fit(f) ==
    /\ pc = "loop"
    /\ \/ cv_folds[f].status = "knn_test"
       \/ cv_folds[f].status = "start" /\ ~df_land_controls.given
    /\ LET df_source_train == iloc(SplitRows(df_source), cv_folds[f].train_index)
           df_Train == TrainConcat(df_source_train, df_land_controls.given,
                                   df_land_controls.rows, df_water_controls)
       IN  /\ \E o \in FitOutcomes(df_Train, RInt(0), s_LinearNDInterpolator) :
                cv_folds' = [cv_folds EXCEPT
                               ![f].status = IF o[1] = "returned" THEN "fitted" ELSE o[1],
                               ![f].df_Train = df_Train,
                               ![f].land = df_land_controls.rows,
                               ![f].model = o[2]]
           /\ fitted' = Append(fitted, Handed("interpolant", InterpolantRows(df_Train)))
    /\ UNCHANGED <<harvesterVars, loaderVars, interpVars, cvInputs, df_land_controls, fold,
                   kf_dict, kfcntl_dict, pc>>

\* lines 341-353 in the context of fold f
fold_score(f) ==
    /\ pc = "loop"
    /\ cv_folds[f].status = "fitted"
    /\ LET df_source_test == iloc(SplitRows(df_source), cv_folds[f].test_index)
           sc == FoldScores(cv_folds[f].model, df_source_test, df_land_controls.given,
                            df_land_controls.rows)
       IN  /\ cv_folds' = [cv_folds EXCEPT ![f].status = "returned",
                                           ![f].test_mse = sc.test_mse,
                                           ![f].testcntl_mse = sc.testcntl_mse]
           /\ kf_dict' = [kf_dict EXCEPT ![<<"fold", f>>] = Append(@, sc.test_mse)]
           /\ kfcntl_dict' = [kfcntl_dict EXCEPT ![<<"Cnrl_fold", f>>] =
                                                   Append(@, sc.testcntl_mse)]
    /\ fold' = fold + 1
    /\ UNCHANGED <<harvesterVars, loaderVars, interpVars, cvInputs, df_land_controls, fitted, pc>>

NextFolds ==
    \/ \E f \in 1..cv_splits : fold_knn_train(f)
    \/ \E f \in 1..cv_splits : fold_knn_test(f)
    \/ \E f \in 1..cv_splits : fold_fit(f)
    \/ \E f \in 1..cv_splits : fold_score(f)
    \/ test_interpolation_fit_end

SpecFolds == InitFolds /\ [][NextFolds]_vars

\* the pairs of scores the sequential loop can give fold f on these inputs
SequentialScores(f) ==
    { <<r.test_mse, r.testcntl_mse>> :
        r \in { o \in FoldOutcomes(SplitRows(df_source),
                                   [df_land_controls EXCEPT !.rows = LandPool],
                                   df_water_controls, cv_splits, nearest_neighbors, f) :
                  o.status = "returned" } }

\* C20: whatever the order and the interleaving of the steps of the fold
\* bodies, the two scores a fold ends with are scores the sequential loop
\* gives that fold on the same inputs.
C20_FoldsIndependent ==
    \A f \in DOMAIN cv_folds :
        cv_folds[f].status = "returned"
        => <<cv_folds[f].test_mse, cv_folds[f].testcntl_mse>> \in SequentialScores(f)

(***************************************************************************)
(* knn_fit_control_points on source sets in which the Euclidean and the    *)
(* Manhattan metric order the neighbors differently                        *)
(***************************************************************************)
\* Candidate source rows: three around the origin, one far to the east, one
\* without a value at the first control point, one on the second
KnnPool ==
    << Row(0, 0, RInt(1)), Row(1, 0, RInt(2)), Row(0, 1, RInt(3)), Row(5, 2, RInt(4)),
       Row(2, 2, NaN), Row(-1, 0, RInt(6)) >>

\* the source is a choice of rows of the pool; the VAL column of the control
\* frame holds zeros or nothing before the fit
InitKnnMean ==
    /\ LoaderIdle
    /\ HarvesterIdle
    /\ InterpIdle
    /\ df_source \in { SelectRows(KnnPool, S, 1) :
                         S \in { T \in SUBSET DOMAIN KnnPool :
                                   Cardinality(T) <= MaxStations + 1 } }
    /\ df_land_controls \in
          { [given |-> TRUE, rows |-> << Row(2, 2, v), Row(-1, 0, v) >>] : v \in {RInt(0), NaN} }
    /\ df_water_controls = NoFrame
    /\ cv_splits = 0
    /\ nearest_neighbors \in 1..MaxNeighbors
    /\ fold = 0
    /\ cv_folds = <<>>
    /\ kf_dict = <<>>
    /\ kfcntl_dict = <<>>
    /\ fitted = <<>>
    /\ pc = "init"

SpecKnnMean == InitKnnMean /\ [][NextKnn]_vars

\* the square of the Euclidean distance between the points of two rows
EuclidSquared(a, b) ==
    (a.LON - b.LON) * (a.LON - b.LON) + (a.LAT - b.LAT) * (a.LAT - b.LAT)

\* S is a set of k positions of src none of which is farther from c than a
\* position outside it
KNearest(src, c, k, S) ==
    /\ S \subseteq DOMAIN src
    /\ Cardinality(S) = k
    /\ \A i \in S : \A j \in DOMAIN src \ S :
          EuclidSquared(src[i], c) <= EuclidSquared(src[j], c)

\* v is the plain mean of the values of src at the positions S
IsMeanOver(src, S, v) ==
    /\ v # NaN
    /\ RMul(v, RInt(Cardinality(S))) = SeqSum([i \in 1..Len(SelectRows(src, S, 1)) |->
                                                  SelectRows(src, S, 1)[i].VAL])

ExampleSources == << Row(0, 0, RInt(1)), Row(1, 0, RInt(2)), Row(0, 1, RInt(3)) >>

C21_WitnessExample ==
    /\ pc = "returned"
    /\ df_source = ExampleSources
    /\ nearest_neighbors = 2
    /\ df_land_controls.rows[1] = Row(2, 2, Rat(5, 2))

(***************************************************************************)
(* interpolation_model_fit called twice with the same arguments.  The      *)
(* function draws no random number and reads no clock, and the interpolant *)
(* constructor is a function of the sequences X, Y, V and of fill_value:   *)
(* where the triangulation or a vertex value is the library's choice, the  *)
(* library makes the same choice whenever it is handed the same sequences. *)
(***************************************************************************)
\* df reversed
Reverse(df) == [i \in DOMAIN df |-> df[Len(df) + 1 - i]]

\* a second fit that hands the constructor the rows in reverse order
RefitOutcomes_reversed(df, fill, itype, before, m) ==
    IF /\ StrUpper(itype) \in model_choices
       /\ << StrUpper(itype), InterpolantRows(Reverse(df)), fill >> = before
    THEN { <<"returned", m>> }
    ELSE FitOutcomes(Reverse(df), fill, itype)

\* The outcomes of a call of interpolation_model_fit on df made after a call
\* that handed the constructor `before` (<< kind, rows, fill_value >>) and
\* got the model m: the same model when the constructor is handed the same
\* again.
RefitOutcomes(df, fill, itype, before, m) ==
    IF /\ StrUpper(itype) \in model_choices
       /\ << StrUpper(itype), InterpolantRows(df), fill >> = before
    THEN { <<"returned", m>> }
    ELSE FitOutcomes(df, fill, itype)

\* a second call of interpolation_model_fit with the arguments of the first
interpolation_model_fit_again ==
    /\ pc = "returned"
    /\ model # NoModel
    /\ model_refit = NoModel
    /\ \E o \in RefitOutcomes(df_combined, fill_value, interpolation_type,
                              << model.kind, fitted[1].rows, model.fill_value >>, model) :
          /\ pc' = IF o[1] = "returned" THEN "returned again" ELSE o[1]
          /\ model_refit' = o[2]
    /\ fitted' = Append(fitted, Handed("interpolant", InterpolantRows(df_combined)))
    /\ UNCHANGED <<harvesterVars, loaderVars, cvVars, df_combined, fill_value, interpolation_type, model,
                   adc_combined, input_grid_type, df_out, list_dfs>>

SpecRefit == InitFit /\ [][interpolation_model_fit \/ interpolation_model_fit_again]_vars

\* the probe points: the points of the training pool's square, its
\* neighbourhood outside the hull included
Probes == (-1..5) \X (-1..5)

Least(S) == CHOOSE a \in S : \A b \in S : a <= b
Greatest(S) == CHOOSE a \in S : \A b \in S : b <= a

\* C23: the test subset of every fold is a non-empty contiguous range of
\* positions of the purged station set; fold 1 starts at the first position,
\* every later fold where the fold before it ended, the last fold ends at
\* the last position; and the sizes of two folds differ by at most one.
C23_FoldsContiguous ==
    LET n == Len(dropna(df_source))
        T(f) == cv_folds[f].test_index
    IN  \A f \in DOMAIN cv_folds :
            /\ T(f) # {}
            /\ T(f) = Least(T(f))..Greatest(T(f))
            /\ Least(T(f)) = IF f = 1 THEN 1 ELSE Greatest(T(f - 1)) + 1
            /\ f = cv_splits => Greatest(T(f)) = n
            /\ \A g \in DOMAIN cv_folds :
                  Cardinality(T(f)) - Cardinality(T(g)) \in {-1, 0, 1}

\* C23 witness: four stations, the second without a value, in two folds:
\* positions 1 and 2 of the three purged rows, then position 3
C23_Witness ==
    /\ Len(df_source) = 4
    /\ df_source[2].VAL = NaN
    /\ Len(dropna(df_source)) = 3
    /\ cv_splits = 2
    /\ Len(cv_folds) = 2
    /\ cv_folds[1].test_index = {1, 2}
    /\ cv_folds[2].test_index = {3}

(***************************************************************************)
(* Claims about the fatal conditions                                       *)
(***************************************************************************)
LacksColumn == \E i \in DOMAIN list_dfs : ~(LonLatVal \subseteq list_dfs[i].columns)

\* C24: combine_datasets_for_interpolation on a list with a frame that
\* lacks LON, LAT or VAL ends with exit status 1 (its logged failure) and no
\* result.
C24_FatalExitsWithStatus1 ==
    (pc # "init" /\ LacksColumn) => (pc = "exit1" /\ df_combined = <<>>)

(***************************************************************************)
(* test_interpolation_fit on station frames with a column beside LON, LAT  *)
(* and VAL                                                                 *)
(***************************************************************************)
\* the first n stations of the pool in a frame with the further column
\* NAME, the rows at the positions in N without a name
StationFrameNamed(n, N) ==
    [i \in 1..n |->
        [c \in LonLatVal \cup {"NAME"} |->
            IF c = "NAME" THEN (IF i \in N THEN NaN ELSE <<i>>) ELSE StationPool[i][c]]]

InitCVColumns ==
    /\ LoaderIdle
    /\ HarvesterIdle
    /\ InterpIdle
    /\ df_source \in { StationFrame(n, {}) : n \in 3..(MaxStations + 1) }
                     \cup { StationFrameNamed(MaxStations + 1, N) : N \in {{}, {1}} }
    /\ df_land_controls \in { NoFrame, [given |-> TRUE, rows |-> LandPool] }
    /\ df_water_controls \in { NoFrame, [given |-> TRUE, rows |-> WaterPool] }
    /\ cv_splits \in 2..MaxSplits
    /\ nearest_neighbors \in 1..MaxNeighbors
    /\ fold = 0
    /\ cv_folds = <<>>
    /\ kf_dict = <<>>
    /\ kfcntl_dict = <<>>
    /\ fitted = <<>>
    /\ pc = "init"

SpecCVColumns == InitCVColumns /\ [][NextCV]_vars

\* the LON, LAT and VAL of every row of df
Bare(df) == [i \in DOMAIN df |-> Row(df[i].LON, df[i].LAT, df[i].VAL)]

\* C25: the rows the model of a fold is fitted from are the fold's train
\* stations, every land-control row (if supplied) and every water-control
\* row (if supplied) that has a value: none of them is dropped before the
\* fit.
C25_NoSuppliedRowDropped ==
    \A f \in DOMAIN cv_folds :
        LET r == cv_folds[f]
        IN  r.df_Train # <<>>
            => Bare(InterpolantRows(r.df_Train))
                  = Bare(iloc(SplitRows(df_source), r.train_index))
                    \o (IF df_land_controls.given THEN Bare(r.land) ELSE <<>>)
                    \o (IF df_water_controls.given
                        THEN ValuedRows(Bare(df_water_controls.rows)) ELSE <<>>)

(***************************************************************************)
(* Claims about the query modes                                            *)
(***************************************************************************)
LongerList == IF Len(adc_combined.LON) > Len(adc_combined.LAT)
              THEN Len(adc_combined.LON) ELSE Len(adc_combined.LAT)

\* C26: in points mode no returned table has fewer rows than the longer of
\* the LON and LAT lists: with lists of different lengths the call fails.
C26_PointsNeverTruncated ==
    (pc = "returned" /\ input_grid_type = s_points) => Len(df_out) = LongerList

\* C27: with a model, an input_grid_type other than 'points' and 'grid'
\* (another letter case such as 'GRID' included) is rejected: the call does
\* not return, and no row is evaluated.
C27_UnknownModeRejected ==
    (pc # "init" /\ model # NoModel /\ input_grid_type \notin {s_points, s_grid})
    => (pc # "returned" /\ df_out = <<>>)

(***************************************************************************)
(* The harvester (src/harvester/get_adicrc_stations.py).                   *)
(* A URL of the list is what opening it and reading its variable x does:   *)
(* "usable", "OSError" (the dataset does not open) or "KeyError" (it opens *)
(* and has no variable x).                                                 *)
(***************************************************************************)
MaxUrls == 4

\* the loop of first_available_netCDF4 from position i on: <<status, the
\* position of the value of url when the function ends>>
RECURSIVE FirstAvailableLoop(_, _)
FirstAvailableLoop(us, i) ==
    IF i > Len(us)
    THEN IF us = <<>> THEN <<"UnboundLocalError", 0>>     \* return url: never assigned
         ELSE <<"returned", Len(us)>>                     \* return url: the last one tried
    ELSE IF us[i] = "usable" THEN <<"returned", i>>       \* break
    ELSE IF us[i] = "OSError" THEN FirstAvailableLoop(us, i + 1)
    ELSE <<"exit1", 0>>                                   \* except Exception

first_available_netCDF4 ==
    /\ pc = "init"
    /\ called' = "first_available_netCDF4"
    /\ pc' = FirstAvailableLoop(urls, 1)[1]
    /\ url' = FirstAvailableLoop(urls, 1)[2]
    /\ UNCHANGED <<loaderVars, interpVars, cvVars, fitted, urls, knockout_file,
                   self_knockout, df_station, station_list, self_station_list>>

InitUrls ==
    /\ LoaderIdle
    /\ InterpIdle
    /\ CvIdle
    /\ urls \in UNION { [1..n -> {"usable", "OSError", "KeyError"}] : n \in 0..MaxUrls }
    /\ url = 0
    /\ knockout_file = Unset
    /\ self_knockout = Unset
    /\ df_station = <<>>
    /\ station_list = FileStations
    /\ self_station_list = FileStations
    /\ called = None
    /\ fitted = <<>>
    /\ pc = "init"

SpecUrls == InitUrls /\ [][first_available_netCDF4]_vars

Usable(i) == i \in DOMAIN urls /\ urls[i] = "usable"

\* C28: first_available_netCDF4 returns the first URL of the list that
\* opens and holds the variable x, whatever the URLs before it do; what it
\* returns is never a URL whose check failed; and on a list without a usable
\* URL it returns no URL.
C28_FirstUsableUrl ==
    (called = "first_available_netCDF4")
    => /\ (\E i \in DOMAIN urls : Usable(i))
             => /\ pc = "returned"
                /\ Usable(url)
                /\ \A j \in 1..(url - 1) : ~Usable(j)
       /\ pc = "returned" => Usable(url)
       /\ (\A i \in DOMAIN urls : ~Usable(i)) => pc # "returned"

(***************************************************************************)
(* class get_adcirc_stations: the constructor (called with the default     *)
(* source and product and a station file), remove_knockout_stations and    *)
(* override_station_IDs.  A knockout dict is a sequence of                 *)
(* [station, ranges] in key order, the ranges a sequence of <<first, last>> *)
(* times; the frame df_station maps each station column to its values over *)
(* the times 1..MaxTimes.                                                  *)
(***************************************************************************)
MaxTimes == 3

\* the knockout dicts of one or two stations; station s9 is in no frame
KnockoutDicts ==
    LET ranges == { << <<1, 2>> >>, << <<1, 1>>, <<3, 3>> >> }
        entries == { [station |-> c, ranges |-> r] : c \in {"s1", "s2", "s9"}, r \in ranges }
    IN  { <<e>> : e \in entries }
        \cup { <<p[1], p[2]>> : p \in { q \in entries \X entries : q[1].station # q[2].station } }

\* the frame with the station columns cols, every value present
StationTable(cols) == [c \in cols |-> [t \in 1..MaxTimes |-> RInt(t)]]

\* __init__, lines 141-169
get_adcirc_stations_init ==
    /\ pc = "init"
    /\ called' = "__init__"
    /\ IF knockout_file.set
       THEN /\ self_knockout' = knockout_file     \* read_json_file, line 162
            /\ pc' = "AttributeError"             \* self.knockout_file, line 163
       ELSE /\ pc' = "constructed"
            /\ UNCHANGED self_knockout
    /\ self_station_list' = FileStations
    /\ UNCHANGED <<loaderVars, interpVars, cvVars, fitted, urls, url, knockout_file,
                   df_station, station_list>>

\* df_station[station][value[0]:value[1]] = np.nan for every range of the
\* station: a label slice takes in both of its ends
SetMissing(col, ranges) ==
    [t \in DOMAIN col |->
        IF \E k \in DOMAIN ranges : ranges[k][1] <= t /\ t <= ranges[k][2]
        THEN NaN ELSE col[t]]

\* the loop over the knockout stations from position i on: <<status, frame>>
RECURSIVE KnockoutLoop(_, _, _)
KnockoutLoop(knockout, df, i) ==
    IF i > Len(knockout) THEN <<"returned", df>>
    ELSE IF knockout[i].station \notin DOMAIN df
    THEN <<"KeyError", df>>                       \* df_station[station]
    ELSE KnockoutLoop(knockout,
                      [df EXCEPT ![knockout[i].station] = SetMissing(@, knockout[i].ranges)],
                      i + 1)

\* remove_knockout_stations, lines 179-190; the frame is changed in place
remove_knockout_stations ==
    /\ pc = "constructed"
    /\ called' = "remove_knockout_stations"
    /\ LET stations == { self_knockout.dict[i].station : i \in DOMAIN self_knockout.dict }
           o == IF ~self_knockout.set THEN <<"AttributeError", df_station>>   \* self.knockout
                ELSE IF stations \cap DOMAIN df_station = {}
                THEN <<"returned", df_station>>
                ELSE KnockoutLoop(self_knockout.dict, df_station, 1)
       IN  /\ pc' = o[1]
           /\ df_station' = o[2]
    /\ UNCHANGED <<loaderVars, interpVars, cvVars, fitted, urls, url, knockout_file,
                   self_knockout, station_list, self_station_list>>

\* override_station_IDs, lines 200-205
override_station_IDs ==
    /\ pc = "constructed"
    /\ called' = "override_station_IDs"
    /\ self_station_list' = IF station_list.type = "list" THEN station_list
                            ELSE self_station_list
    /\ pc' = "NameError"                  \* utility.log: no name 'utility'
    /\ UNCHANGED <<loaderVars, interpVars, cvVars, fitted, urls, url, knockout_file,
                   self_knockout, df_station, station_list>>

\* The object before its constructor runs, or a constructed object, whose
\* knockout attribute, if it has one, was assigned by its user.
InitStations ==
    /\ LoaderIdle
    /\ InterpIdle
    /\ CvIdle
    /\ urls = <<>>
    /\ url = 0
    /\ \/ /\ pc = "init"
          /\ knockout_file \in {Unset} \cup { [set |-> TRUE, dict |-> d] : d \in KnockoutDicts }
          /\ self_knockout = Unset
       \/ /\ pc = "constructed"
          /\ knockout_file = Unset
          /\ self_knockout \in { [set |-> TRUE, dict |-> d] : d \in KnockoutDicts }
    /\ df_station \in { StationTable({"s1"}), StationTable({"s1", "s2"}) }
    /\ station_list \in { [type |-> "list", items |-> <<"s3">>],
                          [type |-> "list", items |-> <<>>],
                          [type |-> "tuple", items |-> <<"s3">>],
                          [type |-> "str", items |-> <<"s3">>] }
    /\ self_station_list = FileStations
    /\ called = None
    /\ fitted = <<>>

SpecStations ==
    InitStations /\ [][\/ get_adcirc_stations_init
                       \/ remove_knockout_stations
                       \/ override_station_IDs]_vars

\* the knockout dict lists a range of station c that holds the time t
KnockedOut(c, t) ==
    \E i \in DOMAIN self_knockout.dict :
        /\ self_knockout.dict[i].station = c
        /\ \E k \in DOMAIN self_knockout.dict[i].ranges :
              /\ self_knockout.dict[i].ranges[k][1] <= t
              /\ t <= self_knockout.dict[i].ranges[k][2]

\* C29: remove_knockout_stations on an object with a knockout dict returns,
\* and the frame then has a missing value in exactly the cells of the
\* knockout stations inside their ranges (both ends included), every other
\* cell as before, whether all, some or none of the knockout stations are
\* columns of the frame.
C29_KnockoutExactCells ==
    (called = "remove_knockout_stations" /\ self_knockout.set)
    => /\ pc = "returned"
       /\ \A c \in DOMAIN df_station : \A t \in 1..MaxTimes :
             df_station[c][t] = IF KnockedOut(c, t) THEN NaN ELSE RInt(t)

\* C30: override_station_IDs given a list returns with station_list
\* replaced by it; given anything else it ends with exit status 1 and
\* station_list as it was.
C30_OverrideListOrExit ==
    (called = "override_station_IDs")
    => IF station_list.type = "list"
       THEN pc = "returned" /\ self_station_list = station_list
       ELSE pc = "exit1" /\ self_station_list = FileStations

=============================================================================
